---- MODULE Spec2Model ----
(***************************************************************************)
(* ClawWatch notification pipeline.                                        *)
(*                                                                         *)
(* The model follows the Discord notification dispatcher                   *)
(* (dispatchDiscordNotifications and its helpers), the notification        *)
(* channel mutations of packages/core/convex/notifications.ts and the      *)
(* operator actions of the alerts page.  The alerting backend              *)
(* (convex/alerting) is not part of the sources at hand; its three        *)
(* operations used by the dispatcher are modelled from the design text.    *)
(*                                                                         *)
(* Times are milliseconds.  An optional value is a sequence of length 0    *)
(* (absent) or 1; an unset time is 0.  Strings that the code trims are     *)
(* sequences of characters.  The costs of the analytics queries and the    *)
(* amounts and times of the budget forecast are doubles.                   *)
(***************************************************************************)
EXTENDS Integers, Sequences, FiniteSets, TLC

VARIABLES now, alerts, channels, disp, lastEvent, opsLeft, call,
          schemaEnforced, rules, evals, fired, ingestedCosts, ingestLog,
          source, cursor, returned, lastPoll, disp2, postLog

\* the alert rules and their evaluators
ruleVars == <<rules, evals, fired>>
\* the collector's cache of ingested cost entries
dedupVars == <<ingestedCosts, ingestLog>>

\* the collector's source tracker
trackerVars == <<source, cursor, returned, lastPoll>>
\* a second caller of the dispatcher, and the posts that were accepted
raceVars == <<disp2, postLog>>

vars == <<now, alerts, channels, disp, lastEvent, opsLeft, call, schemaEnforced,
          ruleVars, dedupVars, trackerVars, raceVars>>

(***************************************************************************)
(* Bounds of the model.                                                    *)
(***************************************************************************)
MaxTicks == 4
MaxOperatorOps == 2
MaxAttemptNumber == 15
\* Failed posts before the channels accept every post.
MaxFailures == 2
\* Channel mutations in one run of the channel table.
MaxChannelOps == 3
\* Half minutes of clock in a run of the rule evaluator.
MaxRuleTicks == 6
\* Half days of clock, and calls of shouldIngest, in a run of the dedup cache.
MaxHalfDays == 17
MaxIngestCalls == 3
\* Bytes in the source, and truncations of it, in a run of the source tracker.
MaxBytes == 4
MaxTruncations == 1
\* Cost records in the table that byProvider reads.
MaxCostRecords == 3
\* Budgets in the table that budgetForecast reads.
MaxBudgets == 2
\* Minutes of a run with two callers of the dispatcher, or with a failing
\* storage.
MaxRaceTicks == 2

\* The ids of the stored alerts: the rows of the alerts table, numbered
\* from 1.  The runs that follow single alerts start with the short table
\* of SeedAlertIds; the run of the page limit starts with a table that may
\* hold more alerts than a page.
AlertIds == DOMAIN alerts
SeedAlertIds == {1, 2}
\* The slots of the channel table.
ChannelIds == {1, 2}
LastId(ids) == CHOOSE x \in ids : \A y \in ids : y <= x

(***************************************************************************)
(* Program constants.                                                      *)
(***************************************************************************)
BaseDelayMs == 60000
MaxDelayMs == 30 * 60000
PageLimit == 100

AlertSeverity == {"info", "warning", "critical"}
\* Variant: a channel without severities accepts every severity.
AllSeveritiesByDefault == {"info", "warning", "critical"}

\* the default of shouldDeliver
DefaultSeverities == {"warning", "critical"}
\* the default of notifications.create
CreateDefaultSeverities == {"warning", "critical"}
Transports == {"discord", "email", "webhook"}

Absent == <<>>
Some(x) == <<x>>

Min(a, b) == IF a <= b THEN a ELSE b
Max(a, b) == IF a >= b THEN a ELSE b

(***************************************************************************)
(* String helpers: a string is a sequence of characters.  A character is a *)
(* one-character string where TLA+ can write it and the name of its code   *)
(* point ("U+00A0") where it cannot.                                       *)
(***************************************************************************)
\* What String.prototype.trim strips: the WhiteSpace and the LineTerminator
\* code points of ECMAScript (tab, vertical tab, form feed, space, no-break
\* space, byte order mark, the space separators of Unicode; line feed,
\* carriage return, line separator, paragraph separator).
WhiteSpace ==
    {"\t", "U+000B", "\f", " ", "U+00A0", "U+FEFF",
     "U+1680", "U+2000", "U+2001", "U+2002", "U+2003", "U+2004", "U+2005",
     "U+2006", "U+2007", "U+2008", "U+2009", "U+200A", "U+202F", "U+205F",
     "U+3000",
     "\n", "\r", "U+2028", "U+2029"}

RECURSIVE TrimStart(_)
TrimStart(s) ==
    IF Len(s) > 0 /\ Head(s) \in WhiteSpace THEN TrimStart(Tail(s)) ELSE s

RECURSIVE TrimEnd(_)
TrimEnd(s) ==
    IF Len(s) > 0 /\ s[Len(s)] \in WhiteSpace
    THEN TrimEnd(SubSeq(s, 1, Len(s) - 1)) ELSE s

Trim(s) == TrimEnd(TrimStart(s))

(***************************************************************************)
(* Helpers of the dispatcher.                                              *)
(***************************************************************************)
\* Variant: the severities of the channel are not consulted.
shouldDeliverAnySeverity(channel, severity) == severity \in AlertSeverity

shouldDeliver(channel, severity) ==
    LET allowed == IF channel.config.severities = Absent
                   THEN DefaultSeverities
                   ELSE channel.config.severities[1]
    IN  severity \in allowed

\* d * 2 ** e, by repeated doubling.
RECURSIVE Doubled(_, _)
Doubled(d, e) == IF e = 0 THEN d ELSE Doubled(2 * d, e - 1)

ScaledPow2(e) == Doubled(BaseDelayMs, e)

\* Variant: the delay grows linearly with the attempt number.
computeRetryDelayMsLinear(nextAttemptNumber) ==
    Min(BaseDelayMs * Max(1, nextAttemptNumber), MaxDelayMs)

\* Variant: the delay is not capped.
computeRetryDelayMsUncapped(nextAttemptNumber) ==
    ScaledPow2(Max(0, nextAttemptNumber - 1))

\* Variant: the exponent is one too small.
computeRetryDelayMsOffByOne(nextAttemptNumber) ==
    Min(ScaledPow2(Max(0, nextAttemptNumber - 2)), MaxDelayMs)

computeRetryDelayMs(nextAttemptNumber) ==
    Min(ScaledPow2(Max(0, nextAttemptNumber - 1)), MaxDelayMs)

\* Variant: every status from 200 on counts as success.
ResOkAnyStatus(status) == status >= 200

\* res.ok of the fetch response
ResOk(status) == status >= 200 /\ status <= 299

\* The outcomes of one call of postDiscordWebhook: a response with a status,
\* or a transport error thrown by fetch.
PostOutcomes ==
    { [kind |-> "response", status |-> 204],
      [kind |-> "response", status |-> 500],
      [kind |-> "throw", status |-> 0] }

PostSucceeds(outcome) == outcome.kind = "response" /\ ResOk(outcome.status)

\* Variant: only a thrown error leaves a message.
ErrorMessageOfThrowOnly(outcome) ==
    IF outcome.kind = "throw" THEN "fetch failed" ELSE ""

ErrorMessage(outcome) ==
    IF outcome.kind = "throw" THEN "fetch failed" ELSE "Discord webhook failed"

\* Variant: the webhook URL of a channel is not looked at.
IsDiscordChannelAnyUrl(channel) ==
    channel.isActive /\ channel.type = "discord"

IsDiscordChannel(channel) ==
    channel.isActive /\ channel.type = "discord" /\ Len(channel.config.webhookUrl) > 0

\* api.notifications.list: every stored channel, in creation order, each
\* document with the fields it has (unset names those it lacks).
RECURSIVE ListFrom(_, _)
ListFrom(table, id) ==
    IF id > LastId(ChannelIds) THEN <<>>
    ELSE (IF table[id].status = "live"
          THEN <<[_id |-> id, type |-> table[id].type, name |-> table[id].name,
                  isActive |-> table[id].isActive, config |-> table[id].config,
                  unset |-> table[id].unset]>>
          ELSE <<>>) \o ListFrom(table, id + 1)

list(table) == ListFrom(table, 1)

\* lines 89-91: the filter reads config.webhookUrl of every active discord
\* row, and throws a TypeError on one that has no config
FilterThrows(all) ==
    \E k \in 1..Len(all) :
        all[k].isActive /\ all[k].type = "discord" /\ "config" \in all[k].unset

\* discordChannels of one cycle
DiscordChannels(all) == SelectSeq(all, LAMBDA channel : IsDiscordChannel(channel))

\* targetChannels of one alert
TargetChannels(discordChannels, alert) ==
    SelectSeq(discordChannels, LAMBDA channel : shouldDeliver(channel, alert.severity))

(***************************************************************************)
(* The alerting backend as the design text describes it.                   *)
(***************************************************************************)
\* Variant: alerts already marked sent stay pending.
IsPendingIgnoringSent(alert, t) ==
    /\ ~alert.resolved
    /\ (alert.nextAttemptAt = 0 \/ alert.nextAttemptAt <= t)

IsPending(alert, t) ==
    /\ ~alert.resolved
    /\ ~alert.notificationSent
    /\ (alert.nextAttemptAt = 0 \/ alert.nextAttemptAt <= t)

RECURSIVE PendingFrom(_, _, _)
PendingFrom(table, t, id) ==
    IF id \notin DOMAIN table THEN <<>>
    ELSE (IF IsPending(table[id], t)
          THEN <<[_id |-> id, severity |-> table[id].severity,
                  channels |-> table[id].channels,
                  notificationAttempts |-> table[id].notificationAttempts]>>
          ELSE <<>>) \o PendingFrom(table, t, id + 1)

\* Variant: the page holds every pending alert, whatever the limit.
listPendingNotificationsUnlimited(table, t, limit) ==
    PendingFrom(table, t, 1)

listPendingNotifications(table, t, limit) ==
    LET all == PendingFrom(table, t, 1)
    IN  SubSeq(all, 1, Min(limit, Len(all)))

markNotificationSent(table, id) ==
    [table EXCEPT ![id].notificationSent = TRUE]

markNotificationAttemptFailed(table, id, error, nextAttemptAt) ==
    [table EXCEPT ![id].notificationAttempts = @ + 1,
                  ![id].lastError = error,
                  ![id].nextAttemptAt = nextAttemptAt]

acknowledgeAlert(table, id) == [table EXCEPT ![id].acknowledged = TRUE]

resolveAlert(table, id) == [table EXCEPT ![id].resolved = TRUE]

(***************************************************************************)
(* The parts of the system that a specification leaves at rest.            *)
(***************************************************************************)
RuleIds == {1, 2}
Evaluators == {1, 2}
Fingerprints == {"a", "b"}

\* A row of alertRules; a deleted row keeps its place, as ids are not
\* given twice.
Rule(cooldownMinutes, isActive, lastTriggered) ==
    [status |-> "live", cooldownMinutes |-> cooldownMinutes, isActive |-> isActive,
     lastTriggered |-> lastTriggered]

FreeRule ==
    [status |-> "free", cooldownMinutes |-> 0, isActive |-> FALSE, lastTriggered |-> 0]

IdleEvaluator == [pc |-> "idle", rule |-> 0]

RulesAtRest ==
    /\ rules = [r \in RuleIds |-> Rule(60, FALSE, 0)]
    /\ evals = [p \in Evaluators |-> IdleEvaluator]
    /\ fired = [r \in RuleIds |-> <<>>]

DedupAtRest ==
    /\ ingestedCosts = [f \in Fingerprints |-> Absent]
    /\ ingestLog = [f \in Fingerprints |-> <<>>]

\* the cursor of a source that was never seen
NoCursor ==
    [known |-> FALSE, sizeBytes |-> 0, modifiedAt |-> 0, readOffset |-> 0,
     partialLine |-> <<>>]

\* the outcome of the last poll of the source, if the last step was a poll
NoPoll == [polled |-> FALSE, reads |-> 0, from |-> 0, lines |-> <<>>, before |-> NoCursor]

TrackerAtRest ==
    /\ source = [content |-> <<>>, modifiedAt |-> 0, truncations |-> 0]
    /\ cursor = NoCursor
    /\ returned = <<>>
    /\ lastPoll = NoPoll

\* the accepted posts of each alert to each channel, when they are counted
NoPostLog == [on |-> FALSE, count |-> [a \in SeedAlertIds |-> [c \in ChannelIds |-> 0]]]

LogPost(log, alert, channel) ==
    IF log.on THEN [log EXCEPT !.count[alert][channel] = @ + 1] ELSE log

(***************************************************************************)
(* Initial state.                                                          *)
(***************************************************************************)
\* The last call of a pure function: its name, argument and result.
NoCall == [fn |-> "none", arg |-> 0, result |-> 0]
\* What the last step did towards the outside: a post of an alert to a
\* channel (with the outcome of the call), an alert passed over for want of a
\* target channel, a channel created (with the severities argument of the
\* call), or nothing.
NoOutcome == [kind |-> "none", status |-> 0]
NoPatch == [name |-> Absent, isActive |-> Absent, config |-> Absent]
NoEvent ==
    [kind |-> "none", alert |-> 0, channel |-> 0, outcome |-> NoOutcome,
     severities |-> Absent, patch |-> NoPatch, error |-> ""]
PostEvent(alert, channel, outcome) ==
    [NoEvent EXCEPT !.kind = "post", !.alert = alert, !.channel = channel,
                    !.outcome = outcome]
SkipEvent(alert) == [NoEvent EXCEPT !.kind = "skip", !.alert = alert]
\* an alert marked sent after its posts
MarkEvent(alert) == [NoEvent EXCEPT !.kind = "mark", !.alert = alert]
\* a failed attempt recorded for an alert, with the error
RecordEvent(alert, error) ==
    [NoEvent EXCEPT !.kind = "record", !.alert = alert, !.error = error]
\* the cycle ended by an error thrown out of dispatchDiscordNotifications
AbortEvent(alert) == [NoEvent EXCEPT !.kind = "abort", !.alert = alert]
CreateEvent(channel, severities) ==
    [NoEvent EXCEPT !.kind = "create", !.channel = channel, !.severities = severities]

\* a call of notifications.update with its arguments and the message of the
\* error it threw ("" when it returned)
UpdateEvent(channel, patch, error) ==
    [NoEvent EXCEPT !.kind = "update", !.channel = channel, !.patch = patch,
                    !.error = error]

Url == <<"u">>
BlankUrl == <<"\t">>
ChannelName == <<"n">>

\* A row of notificationChannels.  unset names the fields, of name and
\* config, that a patch has removed from the row.
FreeSlot ==
    [status |-> "free", type |-> "discord", name |-> <<>>, isActive |-> FALSE,
     config |-> [webhookUrl |-> <<>>, severities |-> Absent], unset |-> {}]

SeedChannel(type, isActive, severities) ==
    [status |-> "live", type |-> type, name |-> ChannelName, isActive |-> isActive,
     config |-> [webhookUrl |-> Url, severities |-> severities], unset |-> {}]

\* The channel found in the table when the model starts: a row written
\* without severities, a row that accepts critical alerts only, a paused
\* row, or a row of another transport.
SeedChannels ==
    { SeedChannel("discord", TRUE, Absent),
      SeedChannel("discord", TRUE, Some({"critical"})),
      SeedChannel("discord", FALSE, Absent),
      SeedChannel("webhook", TRUE, Absent) }

NewAlert(severity, chans) ==
    [severity |-> severity, channels |-> chans, acknowledged |-> FALSE,
     resolved |-> FALSE, notificationSent |-> FALSE, notificationAttempts |-> 0,
     nextAttemptAt |-> 0, lastError |-> ""]

\* An alert whose delivery has failed n times already and is due again at t.
RetryingAlert(severity, chans, n, t) ==
    [NewAlert(severity, chans) EXCEPT !.notificationAttempts = n,
                                      !.nextAttemptAt = t,
                                      !.lastError = "fetch failed"]

\* Failures behind the retrying alert of the initial state: its next failure
\* is the first whose doubled delay passes the cap.
PastFailures == 5

AlertChannelLists == {{"discord"}, {"email"}}

\* The locals of one call of dispatchDiscordNotifications: where the call
\* is, the page, the usable channels, the position in the page and in the
\* alert's target channels, the counters, the time the page was fetched;
\* res is the response whose body is being read, error and nextAttemptAt
\* are what the catch block passes to markNotificationAttemptFailed.
IdleDispatcher ==
    [pc |-> "idle", pending |-> <<>>, discordChannels |-> <<>>, i |-> 1, j |-> 1,
     delivered |-> 0, retried |-> 0, startedAt |-> 0,
     res |-> NoOutcome, error |-> "", nextAttemptAt |-> 0]

Init ==
    /\ now = BaseDelayMs
    /\ \E s \in AlertSeverity, c \in AlertChannelLists :
         alerts = [id \in SeedAlertIds |->
                      IF id = 1 THEN NewAlert(s, c)
                      ELSE RetryingAlert("critical", {"discord"}, PastFailures, now)]
    /\ \E seed \in SeedChannels :
         channels = [id \in ChannelIds |-> IF id = 1 THEN seed ELSE FreeSlot]
    /\ disp = IdleDispatcher
    /\ lastEvent = NoEvent
    /\ opsLeft = MaxOperatorOps
    /\ call = NoCall
    /\ schemaEnforced = TRUE
    /\ RulesAtRest
    /\ DedupAtRest
    /\ TrackerAtRest
    /\ disp2 = IdleDispatcher
    /\ postLog = NoPostLog

(***************************************************************************)
(* dispatchDiscordNotifications, one step per awaited call.                *)
(***************************************************************************)
\* lines 80-86: fetch the page of pending alerts
Fetch ==
    /\ disp.pc = "idle"
    /\ LET pending == listPendingNotifications(alerts, now, PageLimit)
       IN  IF Len(pending) = 0
           THEN disp' = IdleDispatcher
           ELSE disp' = [IdleDispatcher EXCEPT !.pc = "channels", !.pending = pending,
                                               !.startedAt = now]
    /\ lastEvent' = NoEvent
    /\ UNCHANGED <<schemaEnforced, ruleVars, dedupVars, trackerVars, raceVars,
                 call, now, alerts, channels, opsLeft>>

\* lines 88-94: read the channels and keep the usable Discord ones; when
\* the filter throws, the error leaves the function
ReadChannels ==
    /\ disp.pc = "channels"
    /\ IF FilterThrows(list(channels))
       THEN /\ disp' = IdleDispatcher
            /\ lastEvent' = AbortEvent(0)
       ELSE /\ disp' = [disp EXCEPT !.pc = "alert",
                                    !.discordChannels = DiscordChannels(list(channels))]
            /\ lastEvent' = NoEvent
    /\ UNCHANGED <<schemaEnforced, ruleVars, dedupVars, trackerVars, raceVars,
                 call, now, alerts, channels, opsLeft>>

CurrentAlert == disp.pending[disp.i]
CurrentTargets == TargetChannels(disp.discordChannels, CurrentAlert)

\* the error of a mutation of the backend that rejects
StorageError == "storage failed"

\* lines 111-113: the catch block up to its await; the attempt number comes
\* from the page and the retry time from the clock as it is now
Caught(error) ==
    [disp EXCEPT !.pc = "record", !.res = NoOutcome, !.error = error,
                 !.nextAttemptAt =
                     now + computeRetryDelayMs(CurrentAlert.notificationAttempts + 1)]

\* Variant: an alert without a target channel is recorded as a failed attempt.
NoTargetRecordsFailure ==
    /\ disp.pc = "alert"
    /\ disp.i <= Len(disp.pending)
    /\ Len(CurrentTargets) = 0
    /\ alerts' = markNotificationAttemptFailed(alerts, CurrentAlert._id, "no channel",
             now + computeRetryDelayMs(CurrentAlert.notificationAttempts + 1))
    /\ disp' = [disp EXCEPT !.retried = @ + 1, !.i = @ + 1, !.j = 1]
    /\ lastEvent' = SkipEvent(CurrentAlert._id)
    /\ UNCHANGED <<schemaEnforced, ruleVars, dedupVars, trackerVars, raceVars,
                 call, now, channels, opsLeft>>

\* lines 99-102: no target channel; markNotificationSent resolves
NoTarget ==
    /\ disp.pc = "alert"
    /\ disp.i <= Len(disp.pending)
    /\ Len(CurrentTargets) = 0
    /\ alerts' = markNotificationSent(alerts, CurrentAlert._id)
    /\ disp' = [disp EXCEPT !.i = @ + 1, !.j = 1]
    /\ lastEvent' = SkipEvent(CurrentAlert._id)
    /\ UNCHANGED <<schemaEnforced, ruleVars, dedupVars, trackerVars, raceVars,
                 call, now, channels, opsLeft>>

\* lines 99-102, the other outcome of the await: markNotificationSent
\* rejects.  The call is outside the try, so the error leaves the function
\* and the rest of the page is not handled.
NoTargetStorageFails ==
    /\ disp.pc = "alert"
    /\ disp.i <= Len(disp.pending)
    /\ Len(CurrentTargets) = 0
    /\ disp' = IdleDispatcher
    /\ lastEvent' = AbortEvent(CurrentAlert._id)
    /\ UNCHANGED <<schemaEnforced, ruleVars, dedupVars, trackerVars, raceVars,
                   call, now, alerts, channels, opsLeft>>

\* lines 45-65, 105-107: the post to one target channel is answered with
\* success; after the last one the call goes on to markNotificationSent
PostOk ==
    /\ disp.pc = "alert"
    /\ disp.i <= Len(disp.pending)
    /\ Len(CurrentTargets) > 0
    /\ \E outcome \in PostOutcomes :
         /\ PostSucceeds(outcome)
         /\ lastEvent' = PostEvent(CurrentAlert._id, CurrentTargets[disp.j]._id, outcome)
         /\ postLog' = LogPost(postLog, CurrentAlert._id, CurrentTargets[disp.j]._id)
    /\ disp' = IF disp.j < Len(CurrentTargets)
               THEN [disp EXCEPT !.j = @ + 1]
               ELSE [disp EXCEPT !.pc = "mark"]
    /\ UNCHANGED <<schemaEnforced, ruleVars, dedupVars, trackerVars, disp2,
                 call, now, alerts, channels, opsLeft>>

\* Variant: a delivered alert is not marked sent.
MarkSentWithoutMark ==
    /\ disp.pc = "mark"
    /\ alerts' = alerts
    /\ disp' = [disp EXCEPT !.pc = "alert", !.delivered = @ + 1, !.i = @ + 1, !.j = 1]
    /\ lastEvent' = MarkEvent(CurrentAlert._id)
    /\ UNCHANGED <<schemaEnforced, ruleVars, dedupVars, trackerVars, raceVars,
                 call, now, channels, opsLeft>>

\* lines 108-110: every post of the alert was accepted and
\* markNotificationSent resolves; the alert is marked sent and counted as
\* delivered
MarkSent ==
    /\ disp.pc = "mark"
    /\ alerts' = markNotificationSent(alerts, CurrentAlert._id)
    /\ disp' = [disp EXCEPT !.pc = "alert", !.delivered = @ + 1, !.i = @ + 1, !.j = 1]
    /\ lastEvent' = MarkEvent(CurrentAlert._id)
    /\ UNCHANGED <<schemaEnforced, ruleVars, dedupVars, trackerVars, raceVars,
                 call, now, channels, opsLeft>>

\* lines 108, 111-113, the other outcome of the await: markNotificationSent
\* rejects after every post of the alert was accepted.  The call is inside
\* the try, so the catch block runs with the storage error and goes on to
\* record a failed attempt for the delivered alert.
MarkSentFails ==
    /\ disp.pc = "mark"
    /\ disp' = Caught(StorageError)
    /\ lastEvent' = NoEvent
    /\ UNCHANGED <<schemaEnforced, ruleVars, dedupVars, trackerVars, raceVars,
                 call, now, alerts, channels, opsLeft>>

\* lines 45, 65-66, 111-113: the post to one target channel fails.  When
\* fetch throws, the catch block runs at once; when the endpoint answers
\* with another status than 2xx, the body of the response is read first.
PostFail ==
    /\ disp.pc = "alert"
    /\ disp.i <= Len(disp.pending)
    /\ Len(CurrentTargets) > 0
    /\ \E outcome \in PostOutcomes :
         /\ ~PostSucceeds(outcome)
         /\ lastEvent' = PostEvent(CurrentAlert._id, CurrentTargets[disp.j]._id, outcome)
         /\ disp' = IF outcome.kind = "throw"
                    THEN Caught(ErrorMessage(outcome))
                    ELSE [disp EXCEPT !.pc = "body", !.res = outcome]
    /\ UNCHANGED <<schemaEnforced, ruleVars, dedupVars, trackerVars, raceVars,
                 call, now, alerts, channels, opsLeft>>

\* lines 66-67, 111-113: the body of the rejecting response has been read;
\* postDiscordWebhook throws and the catch block runs
ReadBody ==
    /\ disp.pc = "body"
    /\ disp' = Caught(ErrorMessage(disp.res))
    /\ lastEvent' = NoEvent
    /\ UNCHANGED <<schemaEnforced, ruleVars, dedupVars, trackerVars, raceVars,
                 call, now, alerts, channels, opsLeft>>

\* lines 114-120: markNotificationAttemptFailed resolves; the failed attempt
\* is recorded with the error and the retry time of the catch block, and
\* counted as retried
RecordFailure ==
    /\ disp.pc = "record"
    /\ alerts' = markNotificationAttemptFailed(alerts, CurrentAlert._id,
                                               disp.error, disp.nextAttemptAt)
    /\ disp' = [disp EXCEPT !.pc = "alert", !.retried = @ + 1, !.i = @ + 1, !.j = 1,
                            !.error = "", !.nextAttemptAt = 0]
    /\ lastEvent' = RecordEvent(CurrentAlert._id, disp.error)
    /\ UNCHANGED <<schemaEnforced, ruleVars, dedupVars, trackerVars, raceVars,
                 call, now, channels, opsLeft>>

\* lines 114-118, the other outcome of the await:
\* markNotificationAttemptFailed rejects.  The call is inside the catch
\* block and nothing guards it, so the error leaves the function and the
\* rest of the page is not handled.
RecordFailureFails ==
    /\ disp.pc = "record"
    /\ disp' = IdleDispatcher
    /\ lastEvent' = AbortEvent(CurrentAlert._id)
    /\ UNCHANGED <<schemaEnforced, ruleVars, dedupVars, trackerVars, raceVars,
                 call, now, alerts, channels, opsLeft>>

\* line 124
Return ==
    /\ disp.pc = "alert"
    /\ disp.i > Len(disp.pending)
    /\ disp' = [disp EXCEPT !.pc = "idle", !.pending = <<>>, !.discordChannels = <<>>,
                            !.i = 1, !.delivered = 0, !.retried = 0, !.startedAt = 0]
    /\ lastEvent' = NoEvent
    /\ UNCHANGED <<schemaEnforced, ruleVars, dedupVars, trackerVars, raceVars,
                 call, now, alerts, channels, opsLeft>>

(***************************************************************************)
(* Operator actions on alerts (alerts page).                               *)
(***************************************************************************)
Acknowledge ==
    \E id \in AlertIds :
        /\ opsLeft > 0
        /\ ~alerts[id].resolved
        /\ ~alerts[id].acknowledged
        /\ alerts' = acknowledgeAlert(alerts, id)
        /\ opsLeft' = opsLeft - 1
        /\ lastEvent' = NoEvent
        /\ UNCHANGED <<schemaEnforced, ruleVars, dedupVars, trackerVars, raceVars,
                 call, now, channels, disp>>

Resolve ==
    \E id \in AlertIds :
        /\ opsLeft > 0
        /\ ~alerts[id].resolved
        /\ alerts' = resolveAlert(alerts, id)
        /\ opsLeft' = opsLeft - 1
        /\ lastEvent' = NoEvent
        /\ UNCHANGED <<schemaEnforced, ruleVars, dedupVars, trackerVars, raceVars,
                 call, now, channels, disp>>

(***************************************************************************)
(* Notification channel mutations (notifications.ts).                      *)
(***************************************************************************)
FreeIds == {id \in ChannelIds : channels[id].status = "free"}

\* create: db.insert of a new row
create(name, config) ==
    /\ opsLeft > 0
    /\ FreeIds # {}
    /\ LET id == CHOOSE x \in FreeIds : \A y \in FreeIds : x <= y
       IN  /\ channels' = [channels EXCEPT ![id] =
               [status |-> "live", type |-> "discord", name |-> Trim(name),
                config |-> [webhookUrl |-> Trim(config.webhookUrl),
                            severities |-> IF config.severities = Absent
                                           THEN Some(CreateDefaultSeverities)
                                           ELSE config.severities],
                isActive |-> TRUE, unset |-> {}]]
           /\ lastEvent' = CreateEvent(id, config.severities)
    /\ opsLeft' = opsLeft - 1
    /\ UNCHANGED <<schemaEnforced, ruleVars, dedupVars, trackerVars, raceVars,
                 call, now, alerts, disp>>

\* remove: db.delete of a stored row
remove(id) ==
    /\ opsLeft > 0
    /\ channels[id].status = "live"
    /\ channels' = [channels EXCEPT ![id] = [FreeSlot EXCEPT !.status = "removed"]]
    /\ opsLeft' = opsLeft - 1
    /\ lastEvent' = NoEvent
    /\ UNCHANGED <<schemaEnforced, ruleVars, dedupVars, trackerVars, raceVars,
                 call, now, alerts, disp>>

\* update, lines 57-65: the value passed to db.patch for name and config;
\* a field given as undefined is removed from the row by the patch
PatchedName(patch) ==
    IF patch.name = Absent THEN Absent ELSE Some(Trim(patch.name[1]))

PatchedConfig(current, patch) ==
    IF patch.config = Absent THEN Absent
    ELSE Some([webhookUrl |-> IF patch.config[1].webhookUrl = Absent
                              THEN current.config.webhookUrl
                              ELSE Trim(patch.config[1].webhookUrl[1]),
               severities |-> IF patch.config[1].severities = Absent
                              THEN current.config.severities
                              ELSE patch.config[1].severities])

Patched(current, patch) ==
    LET name == PatchedName(patch)
        config == PatchedConfig(current, patch)
    IN  [current EXCEPT
            !.name = IF name = Absent THEN <<>> ELSE name[1],
            !.config = IF config = Absent
                       THEN [webhookUrl |-> <<>>, severities |-> Absent]
                       ELSE config[1],
            !.isActive = IF patch.isActive = Absent THEN @ ELSE patch.isActive[1],
            !.unset = {f \in {"name", "config"} :
                          \/ f = "name" /\ name = Absent
                          \/ f = "config" /\ config = Absent}]

\* update: db.patch of a row.  The call throws, and the table stays as it
\* is, when the row is not there (line 53), when config is given without
\* webhookUrl or severities for a row without config (lines 62-63), and
\* when the patch removes a field that the table's schema requires.  The
\* id is that of a row that is or was in the table.
update(id, patch) ==
    /\ opsLeft > 0
    /\ channels[id].status # "free"
    /\ LET current == channels[id]
           error ==
               IF current.status # "live" THEN "Notification channel not found"
               ELSE IF /\ patch.config # Absent
                       /\ "config" \in current.unset
                       /\ \/ patch.config[1].webhookUrl = Absent
                          \/ patch.config[1].severities = Absent
                    THEN "Cannot read properties of undefined"
               ELSE IF schemaEnforced /\ Patched(current, patch).unset # {}
                    THEN "Object is missing the required field"
               ELSE ""
       IN  /\ channels' = IF error # "" THEN channels
                          ELSE [channels EXCEPT ![id] = Patched(current, patch)]
           /\ lastEvent' = UpdateEvent(id, patch, error)
    /\ opsLeft' = opsLeft - 1
    /\ UNCHANGED <<schemaEnforced, ruleVars, dedupVars, trackerVars, raceVars,
                 call, now, alerts, disp>>

CreateConfigs ==
    { [webhookUrl |-> u, severities |-> sev] :
        u \in {Url, BlankUrl}, sev \in {Absent, Some({"info", "critical"})} }

CreateChannel == \E config \in CreateConfigs : create(ChannelName, config)

RemoveChannel == \E id \in ChannelIds : remove(id)

(***************************************************************************)
(* Time.                                                                   *)
(***************************************************************************)
Tick ==
    /\ now < MaxTicks * BaseDelayMs
    /\ now' = now + BaseDelayMs
    /\ lastEvent' = NoEvent
    /\ UNCHANGED <<schemaEnforced, ruleVars, dedupVars, trackerVars, raceVars,
                 call, alerts, channels, disp, opsLeft>>

\* Every step of the dispatcher, of the operator and of the clock; each
\* mutation of the backend that the dispatcher awaits resolves or rejects.
Next ==
    \/ Fetch
    \/ ReadChannels
    \/ NoTarget
    \/ NoTargetStorageFails
    \/ PostOk
    \/ MarkSent
    \/ MarkSentFails
    \/ PostFail
    \/ ReadBody
    \/ RecordFailure
    \/ RecordFailureFails
    \/ Return
    \/ Acknowledge
    \/ Resolve
    \/ CreateChannel
    \/ RemoveChannel
    \/ Tick

Spec == Init /\ [][Next]_vars

(***************************************************************************)
(* The same while the storage is up: every mutation of the backend         *)
(* resolves.  What a cycle does to an alert when the storage takes its     *)
(* marks and records is stated for these runs; what it does when a         *)
(* mutation rejects is stated for the runs of Spec and SpecStorage.         *)
(***************************************************************************)
NextStorageUp ==
    \/ Fetch
    \/ ReadChannels
    \/ NoTarget
    \/ PostOk
    \/ MarkSent
    \/ PostFail
    \/ ReadBody
    \/ RecordFailure
    \/ Return
    \/ Acknowledge
    \/ Resolve
    \/ CreateChannel
    \/ RemoveChannel
    \/ Tick

SpecStorageUp == Init /\ [][NextStorageUp]_vars

(***************************************************************************)
(* The dispatcher run again and again, for as long as there is work: the   *)
(* clock moves to the next retry time when nothing is due, and the         *)
(* channels reject a bounded number of posts before they accept all.  The  *)
(* storage is up: what is followed is the retrying of failed posts.        *)
(***************************************************************************)
RECURSIVE SumAttempts(_, _)
SumAttempts(table, ids) ==
    IF ids = {} THEN 0
    ELSE LET id == CHOOSE x \in ids : TRUE
         IN  table[id].notificationAttempts + SumAttempts(table, ids \ {id})

\* failed posts the channels still have in them
FailuresLeft == PastFailures + MaxFailures - SumAttempts(alerts, AlertIds)

PostFailWhileRejecting == FailuresLeft > 0 /\ PostFail

\* alerts that wait for their retry time
Waiting ==
    {a \in AlertIds : /\ ~alerts[a].resolved
                      /\ ~alerts[a].notificationSent
                      /\ alerts[a].nextAttemptAt > now}

\* nothing is due: time passes until the earliest retry time
Wait ==
    /\ disp.pc = "idle"
    /\ Len(listPendingNotifications(alerts, now, PageLimit)) = 0
    /\ Waiting # {}
    /\ \E a \in Waiting :
         /\ \A b \in Waiting : alerts[a].nextAttemptAt <= alerts[b].nextAttemptAt
         /\ now' = alerts[a].nextAttemptAt
    /\ lastEvent' = NoEvent
    /\ UNCHANGED <<schemaEnforced, ruleVars, dedupVars, trackerVars, raceVars,
                 call, alerts, channels, disp, opsLeft>>

DispatcherStep ==
    \/ Fetch \/ ReadChannels \/ NoTarget \/ PostOk \/ MarkSent
    \/ PostFailWhileRejecting \/ ReadBody \/ RecordFailure \/ Return

NextLive ==
    \/ Fetch
    \/ ReadChannels
    \/ NoTarget
    \/ PostOk
    \/ MarkSent
    \/ PostFailWhileRejecting
    \/ ReadBody
    \/ RecordFailure
    \/ Return
    \/ Resolve
    \/ RemoveChannel
    \/ Wait

SpecLive ==
    Init /\ [][NextLive]_vars /\ WF_vars(DispatcherStep) /\ WF_vars(Wait)

(***************************************************************************)
(* The same, with a channel that may never answer.  fetch is called        *)
(* without a signal or timeout (lines 45-63), so the await of line 45      *)
(* ends only when the endpoint answers or the transport fails.             *)
(***************************************************************************)
NoResponse == [kind |-> "pending", status |-> 0]

\* lines 45, 106: the endpoint accepts the request and never answers
PostNoResponse ==
    /\ disp.pc = "alert"
    /\ disp.i <= Len(disp.pending)
    /\ Len(CurrentTargets) > 0
    /\ disp' = [disp EXCEPT !.pc = "waiting"]
    /\ lastEvent' = PostEvent(CurrentAlert._id, CurrentTargets[disp.j]._id, NoResponse)
    /\ UNCHANGED <<schemaEnforced, ruleVars, dedupVars, trackerVars, raceVars,
                 call, now, alerts, channels, opsLeft>>

NextHang ==
    \/ Fetch
    \/ ReadChannels
    \/ NoTarget
    \/ PostOk
    \/ MarkSent
    \/ PostFailWhileRejecting
    \/ ReadBody
    \/ RecordFailure
    \/ PostNoResponse
    \/ Return
    \/ Resolve
    \/ RemoveChannel
    \/ Wait

SpecHang ==
    Init /\ [][NextHang]_vars /\ WF_vars(DispatcherStep) /\ WF_vars(Wait)

(***************************************************************************)
(* The channel mutations on their own: any sequence of create, update and  *)
(* remove, with every argument that the validators of lines 16-23 and      *)
(* 39-49 let through.                                                      *)
(***************************************************************************)
SeverityLists == {Absent, Some({}), Some({"info"}), Some({"info", "critical"})}

AnyCreateConfigs ==
    { [webhookUrl |-> u, severities |-> sev] :
        u \in {Url, BlankUrl}, sev \in SeverityLists }

UpdatePatches ==
    { [name |-> n, isActive |-> a, config |-> cfg] :
        n \in {Absent, Some(<<"\t", "m", "\n">>)},
        a \in {Absent, Some(FALSE)},
        cfg \in {Absent} \cup
                { Some([webhookUrl |-> u, severities |-> sev]) :
                    u \in {Absent, Some(<<"v", "\n">>)}, sev \in SeverityLists } }

InitChannels ==
    /\ now = BaseDelayMs
    /\ alerts = [id \in SeedAlertIds |-> NewAlert("critical", {"discord"})]
    /\ \E seed \in SeedChannels :
         channels = [id \in ChannelIds |-> IF id = 1 THEN seed ELSE FreeSlot]
    /\ disp = IdleDispatcher
    /\ lastEvent = NoEvent
    /\ opsLeft = MaxChannelOps
    /\ call = NoCall
    /\ schemaEnforced \in BOOLEAN
    /\ RulesAtRest
    /\ DedupAtRest
    /\ TrackerAtRest
    /\ disp2 = IdleDispatcher
    /\ postLog = NoPostLog

CreateAnyChannel == \E config \in AnyCreateConfigs : create(ChannelName, config)

UpdateChannel == \E id \in ChannelIds, patch \in UpdatePatches : update(id, patch)

NextChannels ==
    \/ CreateAnyChannel
    \/ UpdateChannel
    \/ RemoveChannel

SpecChannels == InitChannels /\ [][NextChannels]_vars

(***************************************************************************)
(* The dispatcher beside an operator who edits the channels: a cycle may   *)
(* read the table after an update has removed name and config from a row.  *)
(***************************************************************************)
InitEdited ==
    /\ now = BaseDelayMs
    /\ alerts = [id \in SeedAlertIds |-> NewAlert("critical", {"discord"})]
    /\ \E seed \in SeedChannels :
         channels = [id \in ChannelIds |-> IF id = 1 THEN seed ELSE FreeSlot]
    /\ disp = IdleDispatcher
    /\ lastEvent = NoEvent
    /\ opsLeft = 1
    /\ call = NoCall
    /\ schemaEnforced \in BOOLEAN
    /\ RulesAtRest
    /\ DedupAtRest
    /\ TrackerAtRest
    /\ disp2 = IdleDispatcher
    /\ postLog = NoPostLog

NextEdited ==
    \/ UpdateChannel
    \/ Fetch
    \/ ReadChannels
    \/ NoTarget
    \/ PostOk
    \/ MarkSent
    \/ PostFail
    \/ ReadBody
    \/ RecordFailure
    \/ Return

SpecEdited == InitEdited /\ [][NextEdited]_vars

(***************************************************************************)
(* Alert rules.  The evaluator is not part of the sources at hand; it is   *)
(* modelled from the design text (4.4, 5): an evaluation takes the rule's  *)
(* lock, skips a rule that is inactive or cooling down, and otherwise,     *)
(* when the condition holds, creates the alert and sets lastTriggered in   *)
(* one step.  The cooldown badge of the alerts page is from the code.      *)
(***************************************************************************)
MsPerMinute == 60000
HalfMinuteMs == MsPerMinute \div 2

\* Variant: the badge still shows at the end of the cooldown.
CooldownBadgeInclusive(lastTriggered, cooldownMinutes, t) ==
    IF lastTriggered = 0 THEN Absent
    ELSE LET cooldownEnd == lastTriggered + cooldownMinutes * MsPerMinute
             inCooldown == t <= cooldownEnd
             remainingMs == cooldownEnd - t
         IN  IF ~inCooldown THEN Absent
             ELSE Some((remainingMs + MsPerMinute - 1) \div MsPerMinute)

\* CooldownBadge: nothing, or the minutes that remain (Math.ceil)
CooldownBadge(lastTriggered, cooldownMinutes, t) ==
    IF lastTriggered = 0 THEN Absent
    ELSE LET cooldownEnd == lastTriggered + cooldownMinutes * MsPerMinute
             inCooldown == t < cooldownEnd
             remainingMs == cooldownEnd - t
         IN  IF ~inCooldown THEN Absent
             ELSE Some((remainingMs + MsPerMinute - 1) \div MsPerMinute)

\* design text 4.4 step 1: the rule is still cooling down
CoolingDown(rule, t) ==
    /\ rule.lastTriggered # 0
    /\ t < rule.lastTriggered + rule.cooldownMinutes * MsPerMinute

\* the rule's lock is free
Unlocked(r) == \A q \in Evaluators : ~(evals[q].pc \in {"check", "fire"} /\ evals[q].rule = r)

\* an evaluation tick reaches rule r, one of the stored rules
StartEvaluation(p, r) ==
    /\ evals[p].pc = "idle"
    /\ rules[r].status = "live"
    /\ evals' = [evals EXCEPT ![p] = [pc |-> "wait", rule |-> r]]
    /\ UNCHANGED <<rules, fired>>

\* Variant: the evaluation does not wait for the rule's lock.
AcquireWithoutLock(p) ==
    /\ evals[p].pc = "wait"
    /\ evals' = [evals EXCEPT ![p].pc = "check"]
    /\ UNCHANGED <<rules, fired>>

\* design text 5 (a): per-rule mutual exclusion during evaluate-and-fire
Acquire(p) ==
    /\ evals[p].pc = "wait"
    /\ Unlocked(evals[p].rule)
    /\ evals' = [evals EXCEPT ![p].pc = "check"]
    /\ UNCHANGED <<rules, fired>>

\* 4.4 step 1: skip an inactive or cooling rule, or one deleted meanwhile
SkipRule(p) ==
    /\ evals[p].pc = "check"
    /\ \/ rules[evals[p].rule].status # "live"
       \/ ~rules[evals[p].rule].isActive
       \/ CoolingDown(rules[evals[p].rule], now)
    /\ evals' = [evals EXCEPT ![p] = IdleEvaluator]
    /\ UNCHANGED <<rules, fired>>

\* 4.4 steps 2-4: compute the condition
CheckCondition(p) ==
    /\ evals[p].pc = "check"
    /\ rules[evals[p].rule].status = "live"
    /\ rules[evals[p].rule].isActive
    /\ ~CoolingDown(rules[evals[p].rule], now)
    /\ \E holds \in BOOLEAN :
         evals' = [evals EXCEPT ![p] = IF holds THEN [@ EXCEPT !.pc = "fire"]
                                       ELSE IdleEvaluator]
    /\ UNCHANGED <<rules, fired>>

\* 4.4 step 3: create the alert and set lastTriggered, in one step; the
\* step does nothing for a rule deleted meanwhile
Fire(p) ==
    /\ evals[p].pc = "fire"
    /\ IF rules[evals[p].rule].status = "live"
       THEN /\ fired' = [fired EXCEPT ![evals[p].rule] = Append(@, now)]
            /\ rules' = [rules EXCEPT ![evals[p].rule].lastTriggered = now]
       ELSE UNCHANGED <<fired, rules>>
    /\ evals' = [evals EXCEPT ![p] = IdleEvaluator]

\* the rest of the state, for the steps of the evaluator
RuleFrame == UNCHANGED <<schemaEnforced, dedupVars, trackerVars, raceVars, call, alerts, channels, disp,
                         lastEvent>>

Evaluate ==
    \E p \in Evaluators :
        /\ \/ \E r \in RuleIds : StartEvaluation(p, r)
           \/ Acquire(p)
           \/ SkipRule(p)
           \/ CheckCondition(p)
           \/ Fire(p)
        /\ RuleFrame
        /\ UNCHANGED <<now, opsLeft>>

\* alerts page, toggleRule (part_007:806): updateRule({id, isActive: !isActive})
ToggleRule ==
    \E r \in RuleIds :
        /\ opsLeft > 0
        /\ rules[r].status = "live"
        /\ rules' = [rules EXCEPT ![r].isActive = ~@]
        /\ opsLeft' = opsLeft - 1
        /\ RuleFrame
        /\ UNCHANGED <<now, evals, fired>>

\* alerts page, handleDeleteRule (part_007:811-816): deleteRule({id}) for a
\* rule of the list
DeleteRule ==
    \E r \in RuleIds :
        /\ opsLeft > 0
        /\ rules[r].status = "live"
        /\ rules' = [rules EXCEPT ![r] = [FreeRule EXCEPT !.status = "removed"]]
        /\ opsLeft' = opsLeft - 1
        /\ RuleFrame
        /\ UNCHANGED <<now, evals, fired>>

\* Number(text) for the text of the cooldown field, where it is empty or
\* writes a whole number: the empty text is 0, and decimal digits, after a
\* minus sign or not, are their value.
DecimalDigits == <<"0", "1", "2", "3", "4", "5", "6", "7", "8", "9">>

DigitValue(c) == (CHOOSE k \in 1..Len(DecimalDigits) : DecimalDigits[k] = c) - 1

RECURSIVE DigitsValue(_)
DigitsValue(text) ==
    IF Len(text) = 0 THEN 0
    ELSE 10 * DigitsValue(SubSeq(text, 1, Len(text) - 1)) + DigitValue(text[Len(text)])

Number(text) ==
    IF Len(text) > 1 /\ text[1] = "-" THEN 0 - DigitsValue(Tail(text))
    ELSE DigitsValue(text)

\* line 559: Number(cooldown) || 60
DefaultCooldownMinutes == 60
CooldownMinutesOf(cooldown) ==
    IF Number(cooldown) = 0 THEN DefaultCooldownMinutes ELSE Number(cooldown)

\* what the operator leaves in the cooldown field of the form
CooldownInputs == {<<>>, <<"0">>, <<"1">>, <<"0", "2">>}

FreeRuleIds == {r \in RuleIds : rules[r].status = "free"}

\* alerts page, CreateRuleForm handleSubmit (part_007:545-569):
\* createRule({..., cooldownMinutes: Number(cooldown) || 60}); the new rule
\* is active and has not fired
CreateRule ==
    \E cooldown \in CooldownInputs :
        /\ opsLeft > 0
        /\ FreeRuleIds # {}
        /\ LET r == CHOOSE x \in FreeRuleIds : \A y \in FreeRuleIds : x <= y
           IN  rules' = [rules EXCEPT ![r] = Rule(CooldownMinutesOf(cooldown), TRUE, 0)]
        /\ opsLeft' = opsLeft - 1
        /\ RuleFrame
        /\ UNCHANGED <<now, evals, fired>>

TickRules ==
    /\ now < BaseDelayMs + MaxRuleTicks * HalfMinuteMs
    /\ now' = now + HalfMinuteMs
    /\ RuleFrame
    /\ UNCHANGED <<opsLeft, ruleVars>>

CooldownChoices == {1, 2}

InitRules ==
    /\ now = BaseDelayMs
    /\ alerts = [id \in SeedAlertIds |-> NewAlert("critical", {"discord"})]
    /\ channels = [id \in ChannelIds |-> FreeSlot]
    /\ disp = IdleDispatcher
    /\ lastEvent = NoEvent
    /\ opsLeft = 1
    /\ call = NoCall
    /\ schemaEnforced = TRUE
    /\ \E cd \in CooldownChoices,
          second \in {Rule(1, TRUE, 0), Rule(1, FALSE, 0), FreeRule} :
         rules = [r \in RuleIds |-> IF r = 1 THEN Rule(cd, TRUE, 0) ELSE second]
    /\ evals = [p \in Evaluators |-> IdleEvaluator]
    /\ fired = [r \in RuleIds |-> <<>>]
    /\ DedupAtRest
    /\ TrackerAtRest
    /\ disp2 = IdleDispatcher
    /\ postLog = NoPostLog

NextRules ==
    \/ Evaluate
    \/ ToggleRule
    \/ DeleteRule
    \/ CreateRule
    \/ TickRules

SpecRules == InitRules /\ [][NextRules]_vars

(***************************************************************************)
(* The collector's cache of ingested cost entries.  collector/poll.ts is   *)
(* not part of the sources at hand; the cache is modelled from the design  *)
(* text (3 DedupEntry, 4.2) and from the description of the fix that gave  *)
(* it timestamps and a cleanup (part_005): a Map from fingerprint to the   *)
(* time the entry was first seen, and cleanupIngestedCosts, which removes  *)
(* the entries older than 7 days.  A call is one step: the collector is    *)
(* single-threaded and check-and-insert is atomic per fingerprint (5 (b)). *)
(***************************************************************************)
HalfDayMs == 12 * 60 * MsPerMinute
RetentionMs == 7 * 2 * HalfDayMs

\* Variant: the fingerprint is not recorded.
shouldIngestWithoutRecord(cache, fingerprint, t) ==
    [result |-> cache[fingerprint] = Absent, cache |-> cache]

\* shouldIngest: true, and the fingerprint recorded with the time, when the
\* fingerprint is not in the cache; false otherwise
shouldIngest(cache, fingerprint, t) ==
    IF cache[fingerprint] = Absent
    THEN [result |-> TRUE, cache |-> [cache EXCEPT ![fingerprint] = Some(t)]]
    ELSE [result |-> FALSE, cache |-> cache]

\* Variant: the cleanup empties the cache.
cleanupIngestedCostsClearsAll(cache, t) ==
    [f \in DOMAIN cache |-> Absent]

\* cleanupIngestedCosts: remove the entries older than 7 days
cleanupIngestedCosts(cache, t) ==
    [f \in DOMAIN cache |->
        IF cache[f] # Absent /\ t - cache[f][1] > RetentionMs THEN Absent ELSE cache[f]]

CleanupEvent == [NoEvent EXCEPT !.kind = "cleanup"]

\* the rest of the state, for the steps of the cache
DedupFrame == UNCHANGED <<schemaEnforced, ruleVars, trackerVars, raceVars, call, alerts, channels, disp>>

Ingest ==
    \E f \in Fingerprints :
        /\ opsLeft > 0
        /\ LET r == shouldIngest(ingestedCosts, f, now)
           IN  /\ ingestedCosts' = r.cache
               /\ ingestLog' = [ingestLog EXCEPT
                                   ![f] = Append(@, [at |-> now, result |-> r.result])]
        /\ opsLeft' = opsLeft - 1
        /\ lastEvent' = NoEvent
        /\ DedupFrame
        /\ UNCHANGED now

\* the periodic cleanup of the polling cycle
Cleanup ==
    /\ ingestedCosts' = cleanupIngestedCosts(ingestedCosts, now)
    /\ lastEvent' = CleanupEvent
    /\ DedupFrame
    /\ UNCHANGED <<now, opsLeft, ingestLog>>

TickDedup ==
    /\ now < BaseDelayMs + MaxHalfDays * HalfDayMs
    /\ now' = now + HalfDayMs
    /\ lastEvent' = NoEvent
    /\ DedupFrame
    /\ UNCHANGED <<opsLeft, dedupVars>>

InitDedup ==
    /\ now = BaseDelayMs
    /\ alerts = [id \in SeedAlertIds |-> NewAlert("critical", {"discord"})]
    /\ channels = [id \in ChannelIds |-> FreeSlot]
    /\ disp = IdleDispatcher
    /\ lastEvent = NoEvent
    /\ opsLeft = MaxIngestCalls
    /\ call = NoCall
    /\ schemaEnforced = TRUE
    /\ RulesAtRest
    /\ DedupAtRest
    /\ TrackerAtRest
    /\ disp2 = IdleDispatcher
    /\ postLog = NoPostLog

NextDedup ==
    \/ Ingest
    \/ Cleanup
    \/ TickDedup

SpecDedup == InitDedup /\ [][NextDedup]_vars

(***************************************************************************)
(* Two callers of dispatchDiscordNotifications.  Each call has its own     *)
(* locals (pending, discordChannels, the loop position and the counters);  *)
(* disp holds those of the call that takes the next step and disp2 those   *)
(* of the other call.  Every post made is counted per alert and channel.   *)
(***************************************************************************)
\* the other call takes the next step
Switch ==
    /\ disp' = disp2
    /\ disp2' = disp
    /\ lastEvent' = NoEvent
    /\ UNCHANGED <<schemaEnforced, ruleVars, dedupVars, trackerVars, postLog,
                   call, now, alerts, channels, opsLeft>>

TickRace ==
    /\ now < MaxRaceTicks * BaseDelayMs
    /\ now' = now + BaseDelayMs
    /\ lastEvent' = NoEvent
    /\ UNCHANGED <<schemaEnforced, ruleVars, dedupVars, trackerVars, raceVars,
                   call, alerts, channels, disp, opsLeft>>

InitRace ==
    /\ now = BaseDelayMs
    /\ \E s \in AlertSeverity :
         alerts = [id \in SeedAlertIds |->
                      IF id = 1 THEN NewAlert(s, {"discord"})
                      ELSE [NewAlert("critical", {"discord"})
                               EXCEPT !.notificationSent = TRUE]]
    /\ channels = [id \in ChannelIds |-> SeedChannel("discord", TRUE, Absent)]
    /\ disp = IdleDispatcher
    /\ lastEvent = NoEvent
    /\ opsLeft = 0
    /\ call = NoCall
    /\ schemaEnforced = TRUE
    /\ RulesAtRest
    /\ DedupAtRest
    /\ TrackerAtRest
    /\ disp2 = IdleDispatcher
    /\ postLog = [NoPostLog EXCEPT !.on = TRUE]

NextRace ==
    \/ Fetch
    \/ ReadChannels
    \/ NoTarget
    \/ PostOk
    \/ MarkSent
    \/ PostFail
    \/ ReadBody
    \/ RecordFailure
    \/ Return
    \/ Switch
    \/ TickRace

SpecRace == InitRace /\ [][NextRace]_vars

(***************************************************************************)
(* The dispatcher with a storage whose mutations may throw, beside an       *)
(* operator who may resolve an alert.                                      *)
(***************************************************************************)
InitStorage ==
    /\ now = BaseDelayMs
    /\ \E s \in AlertSeverity :
         alerts = [id \in SeedAlertIds |-> IF id = 1 THEN NewAlert(s, {"discord"})
                                       ELSE NewAlert("critical", {"discord"})]
    /\ \E seed \in SeedChannels :
         channels = [id \in ChannelIds |-> IF id = 1 THEN seed ELSE FreeSlot]
    /\ disp = IdleDispatcher
    /\ lastEvent = NoEvent
    /\ opsLeft = 1
    /\ call = NoCall
    /\ schemaEnforced = TRUE
    /\ RulesAtRest
    /\ DedupAtRest
    /\ TrackerAtRest
    /\ disp2 = IdleDispatcher
    /\ postLog = NoPostLog

NextStorage ==
    \/ Fetch
    \/ ReadChannels
    \/ NoTarget
    \/ PostOk
    \/ MarkSent
    \/ PostFail
    \/ ReadBody
    \/ RecordFailure
    \/ Return
    \/ NoTargetStorageFails
    \/ MarkSentFails
    \/ RecordFailureFails
    \/ Resolve
    \/ TickRace

SpecStorage == InitStorage /\ [][NextStorage]_vars

(***************************************************************************)
(* The dispatcher on a table that holds about as many pending alerts as a  *)
(* page: one less than the limit of 100 that line 81 passes to             *)
(* listPendingNotifications, as many, and more.  With more, the page of    *)
(* the first cycle is cut at the limit and the alerts left out wait for    *)
(* the next cycle.  The severities of the alerts go round the three        *)
(* severities, so that every channel of SeedChannels finds alerts it       *)
(* accepts and alerts it does not; a bounded number of posts and of marks  *)
(* fail, and the clock moves to the next retry time when nothing is due.   *)
(* The rejections that end a cycle (NoTargetStorageFails,                  *)
(* RecordFailureFails) are followed on the short table, in Spec: a cycle   *)
(* that they end returns no result.                                        *)
(***************************************************************************)
\* Alerts beyond a full page in the longest table.
MaxExtraAlerts == 1
\* Failed attempts recorded in one run on the long table.
MaxPageFailures == 1

PageSeverity(id) ==
    IF id % 3 = 0 THEN "info" ELSE IF id % 3 = 1 THEN "warning" ELSE "critical"

RECURSIVE AttemptsFrom(_, _)
AttemptsFrom(table, id) ==
    IF id \notin DOMAIN table THEN 0
    ELSE table[id].notificationAttempts + AttemptsFrom(table, id + 1)

\* failed attempts that are still to come
PageFailuresLeft == MaxPageFailures - AttemptsFrom(alerts, 1)

PostFailOnPage == PageFailuresLeft > 0 /\ PostFail

MarkSentFailsOnPage == PageFailuresLeft > 0 /\ MarkSentFails

InitPage ==
    /\ now = BaseDelayMs
    /\ \E n \in (PageLimit - 1)..(PageLimit + MaxExtraAlerts) :
         alerts = [id \in 1..n |-> NewAlert(PageSeverity(id), {"discord"})]
    /\ \E seed \in SeedChannels :
         channels = [id \in ChannelIds |-> IF id = 1 THEN seed ELSE FreeSlot]
    /\ disp = IdleDispatcher
    /\ lastEvent = NoEvent
    /\ opsLeft = 0
    /\ call = NoCall
    /\ schemaEnforced = TRUE
    /\ RulesAtRest
    /\ DedupAtRest
    /\ TrackerAtRest
    /\ disp2 = IdleDispatcher
    /\ postLog = NoPostLog

NextPage ==
    \/ Fetch
    \/ ReadChannels
    \/ NoTarget
    \/ PostOk
    \/ MarkSent
    \/ MarkSentFailsOnPage
    \/ PostFailOnPage
    \/ ReadBody
    \/ RecordFailure
    \/ Return
    \/ Wait

SpecPage == InitPage /\ [][NextPage]_vars

(***************************************************************************)
(* The collector's source tracker.  collector/poll.ts is not part of the   *)
(* sources at hand (issue5.md proposes the cursor); the tracker is         *)
(* modelled from the design text (3 SourceCursor, 4.1): a poll compares    *)
(* size and modification time with the cursor and skips an unchanged       *)
(* source, starts again from byte 0 when the size has decreased, and       *)
(* otherwise reads the new bytes, returns the complete lines and holds     *)
(* the trailing partial line over.  A source is a sequence of bytes.       *)
(***************************************************************************)
Newline == "\n"
SourceBytes == {"a", Newline}

\* the complete lines of data, and what follows the last line break
RECURSIVE SplitFrom(_, _, _)
SplitFrom(data, k, line) ==
    IF k > Len(data) THEN [lines |-> <<>>, rest |-> line]
    ELSE IF data[k] = Newline
         THEN LET r == SplitFrom(data, k + 1, <<>>)
              IN  [lines |-> <<line>> \o r.lines, rest |-> r.rest]
         ELSE SplitFrom(data, k + 1, Append(line, data[k]))

SplitLines(data) == SplitFrom(data, 1, <<>>)

\* Variant: a known source is read on every poll.
UnchangedNever(cur, size, mtime) == FALSE

\* 4.1: size and modification time are those of the cursor
Unchanged(cur, size, mtime) ==
    cur.known /\ size = cur.sizeBytes /\ mtime = cur.modifiedAt

\* Variant: a smaller source is read from where the cursor is.
TruncatedNever(cur, size) == FALSE

\* 4.1: the size has decreased relative to the cursor
Truncated(cur, size) == cur.known /\ size < cur.sizeBytes

\* Variant: the partial line is not held over.
CarryNothing(cur) == <<>>

\* 4.1: the partial line is prefixed onto the next read
Carry(cur) == cur.partialLine

\* one poll of one source: the new cursor, the lines returned, the number of
\* read calls and the byte the read started from
pollSource(cur, content, mtime) ==
    LET size == Len(content)
    IN  IF Unchanged(cur, size, mtime)
        THEN [cursor |-> cur, lines |-> <<>>, reads |-> 0, from |-> cur.sizeBytes]
        ELSE LET start == IF Truncated(cur, size) THEN NoCursor ELSE cur
                 from == start.sizeBytes
                 split == SplitLines(Carry(start) \o SubSeq(content, from + 1, size))
             IN  [cursor |-> [known |-> TRUE, sizeBytes |-> size, modifiedAt |-> mtime,
                              readOffset |-> size - Len(split.rest),
                              partialLine |-> split.rest],
                  lines |-> split.lines, reads |-> 1, from |-> from]

\* the rest of the state, for the steps of the tracker
TrackerFrame ==
    UNCHANGED <<schemaEnforced, ruleVars, dedupVars, raceVars, call, now, alerts,
                channels, disp, lastEvent, opsLeft>>

Poll ==
    /\ LET r == pollSource(cursor, source.content, source.modifiedAt)
       IN  /\ cursor' = r.cursor
           /\ returned' = returned \o r.lines
           /\ lastPoll' = [polled |-> TRUE, reads |-> r.reads, from |-> r.from,
                           lines |-> r.lines, before |-> cursor]
    /\ TrackerFrame
    /\ UNCHANGED source

\* the agent appends a byte to the source
AppendByte ==
    /\ Len(source.content) < MaxBytes
    /\ \E b \in SourceBytes :
         source' = [source EXCEPT !.content = Append(@, b), !.modifiedAt = @ + 1]
    /\ lastPoll' = NoPoll
    /\ TrackerFrame
    /\ UNCHANGED <<cursor, returned>>

\* the source is cut back to one of its prefixes
Truncate ==
    /\ source.truncations < MaxTruncations
    /\ \E k \in 0..(Len(source.content) - 1) :
         source' = [content |-> SubSeq(source.content, 1, k),
                    modifiedAt |-> source.modifiedAt + 1,
                    truncations |-> source.truncations + 1]
    /\ lastPoll' = NoPoll
    /\ TrackerFrame
    /\ UNCHANGED <<cursor, returned>>

InitTracker ==
    /\ now = BaseDelayMs
    /\ alerts = [id \in SeedAlertIds |-> NewAlert("critical", {"discord"})]
    /\ channels = [id \in ChannelIds |-> FreeSlot]
    /\ disp = IdleDispatcher
    /\ lastEvent = NoEvent
    /\ opsLeft = 0
    /\ call = NoCall
    /\ schemaEnforced = TRUE
    /\ RulesAtRest
    /\ DedupAtRest
    /\ TrackerAtRest
    /\ disp2 = IdleDispatcher
    /\ postLog = NoPostLog

NextTracker ==
    \/ Poll
    \/ AppendByte
    \/ Truncate

SpecTracker == InitTracker /\ [][NextTracker]_vars

(***************************************************************************)
(* Numbers.  A JavaScript number is an IEEE 754 double: here a finite      *)
(* double that is zero or normal, the record of a sign, an exponent and 53 *)
(* bits, with value (-1)^neg * 0.b1 b2 ... b53 (binary) * 2^exp, where     *)
(* b1 = 1 unless the number is zero.  Every operation rounds to nearest,   *)
(* ties to even.                                                           *)
(***************************************************************************)
MantissaBits == 53

Zeros(n) == [k \in 1..n |-> 0]

ZeroDouble == [neg |-> FALSE, exp |-> 0, bits |-> Zeros(MantissaBits)]

IsZero(x) == x.bits[1] = 0

\* 0 or -0
SignedZero(neg) == [ZeroDouble EXCEPT !.neg = neg]

\* -x
Negated(x) == [x EXCEPT !.neg = ~@]

\* one unit in the last place more
NextUp(exp, bits) ==
    IF \A k \in 1..Len(bits) : bits[k] = 1
    THEN [exp |-> exp + 1, bits |-> <<1>> \o Zeros(Len(bits) - 1)]
    ELSE LET last == CHOOSE k \in 1..Len(bits) :
                         bits[k] = 0 /\ \A j \in (k + 1)..Len(bits) : bits[j] = 1
         IN  [exp |-> exp,
              bits |-> [k \in 1..Len(bits) |->
                           IF k < last THEN bits[k] ELSE IF k = last THEN 1 ELSE 0]]

\* the double for 0.b1 b2 ... * 2^exp, where b1 = 1 and more holds when
\* bits beyond those given are set
RoundToDouble(neg, exp, bits, more) ==
    LET all == bits \o Zeros(MantissaBits + 1)
        kept == SubSeq(all, 1, MantissaBits)
        half == all[MantissaBits + 1] = 1
        rest == more \/ \E k \in (MantissaBits + 2)..Len(all) : all[k] = 1
        up == NextUp(exp, kept)
    IN  IF half /\ (rest \/ kept[MantissaBits] = 1)
        THEN [neg |-> neg, exp |-> up.exp, bits |-> up.bits]
        ELSE [neg |-> neg, exp |-> exp, bits |-> kept]

\* the same for bits that may begin with zeros
Normalised(neg, exp, bits, more) ==
    IF \A k \in 1..Len(bits) : bits[k] = 0 THEN SignedZero(neg)
    ELSE LET first == CHOOSE k \in 1..Len(bits) :
                          bits[k] = 1 /\ \A j \in 1..(k - 1) : bits[j] = 0
         IN  RoundToDouble(neg, exp - (first - 1), SubSeq(bits, first, Len(bits)), more)

\* The sum of two bit strings of one length, with the carry out in front.
\* A carry comes into place k when some place below k holds two ones and
\* every place between holds just one.
SumBits(a, b) ==
    LET CarryInto(k) ==
            IF \E j \in (k + 1)..Len(a) :
                   /\ a[j] + b[j] = 2
                   /\ \A i \in (k + 1)..(j - 1) : a[i] + b[i] = 1
            THEN 1 ELSE 0
    IN  <<CarryInto(0)>> \o [k \in 1..Len(a) |-> (a[k] + b[k] + CarryInto(k)) % 2]

\* The difference of two bit strings of one length, the first the greater.
\* Place k lends when some place below k holds a zero over a one and every
\* place between holds two equal bits.
DiffBits(a, b) ==
    LET Lends(k) ==
            IF \E j \in (k + 1)..Len(a) :
                   /\ a[j] < b[j]
                   /\ \A i \in (k + 1)..(j - 1) : a[i] = b[i]
            THEN 1 ELSE 0
    IN  [k \in 1..Len(a) |-> (2 + a[k] - b[k] - Lends(k)) % 2]

\* |x| < |y|
LessAbs(x, y) ==
    IF IsZero(y) THEN FALSE
    ELSE IF IsZero(x) THEN TRUE
    ELSE \/ x.exp < y.exp
         \/ /\ x.exp = y.exp
            /\ \E k \in 1..MantissaBits :
                 /\ x.bits[k] < y.bits[k]
                 /\ \A j \in 1..(k - 1) : x.bits[j] = y.bits[j]

\* x < y
LessThan(x, y) ==
    IF IsZero(x) /\ IsZero(y) THEN FALSE
    ELSE IF x.neg # y.neg THEN x.neg
    ELSE IF x.neg THEN LessAbs(y, x)
    ELSE LessAbs(x, y)

\* x + y
Plus(x, y) ==
    IF IsZero(x) /\ IsZero(y) THEN SignedZero(x.neg /\ y.neg)
    ELSE IF IsZero(x) THEN y
    ELSE IF IsZero(y) THEN x
    ELSE LET hi == IF LessAbs(x, y) THEN y ELSE x
             lo == IF LessAbs(x, y) THEN x ELSE y
             shift == hi.exp - lo.exp
         IN  IF shift > MantissaBits + 2 THEN hi
             ELSE LET a == hi.bits \o Zeros(shift)
                      b == Zeros(shift) \o lo.bits
                  IN  IF x.neg = y.neg
                      THEN Normalised(hi.neg, hi.exp + 1, SumBits(a, b), FALSE)
                      ELSE IF a = b THEN ZeroDouble
                      ELSE Normalised(hi.neg, hi.exp, DiffBits(a, b), FALSE)

\* x - y
Minus(x, y) == Plus(x, Negated(y))

\* the whole number written by bits lo to hi of a bit string
RECURSIVE ValueOf(_, _, _)
ValueOf(bits, lo, hi) ==
    IF lo > hi THEN 0 ELSE 2 * ValueOf(bits, lo, hi - 1) + bits[hi]

\* the n bits that write a whole number below 2^n
BitsOf(value, n) == [k \in 1..n |-> (value \div 2^(n - k)) % 2]

\* The 53 bits as a whole number in four limbs of 14 bits, the first the
\* most significant.
LimbBase == 2^14

Limbs(bits) ==
    LET padded == Zeros(56 - MantissaBits) \o bits
    IN  [i \in 1..4 |-> ValueOf(padded, 14 * (i - 1) + 1, 14 * i)]

\* the eight limbs of the product of two numbers of four limbs
ProductLimbs(a, b) ==
    LET Column(k) ==
            LET pairs == {i \in 1..4 : k - i \in 1..4}
                Term(i) == a[i] * b[k - i]
            IN  (IF 1 \in pairs THEN Term(1) ELSE 0) + (IF 2 \in pairs THEN Term(2) ELSE 0)
                  + (IF 3 \in pairs THEN Term(3) ELSE 0) + (IF 4 \in pairs THEN Term(4) ELSE 0)
        c8 == Column(8)
        c7 == Column(7) + c8 \div LimbBase
        c6 == Column(6) + c7 \div LimbBase
        c5 == Column(5) + c6 \div LimbBase
        c4 == Column(4) + c5 \div LimbBase
        c3 == Column(3) + c4 \div LimbBase
        c2 == Column(2) + c3 \div LimbBase
    IN  <<c2 \div LimbBase, c2 % LimbBase, c3 % LimbBase, c4 % LimbBase,
          c5 % LimbBase, c6 % LimbBase, c7 % LimbBase, c8 % LimbBase>>

\* x * y
Times(x, y) ==
    IF IsZero(x) \/ IsZero(y) THEN SignedZero(x.neg # y.neg)
    ELSE LET limbs == ProductLimbs(Limbs(x.bits), Limbs(y.bits))
             product == [k \in 1..112 |->
                            (limbs[(k - 1) \div 14 + 1] \div 2^(13 - ((k - 1) % 14))) % 2]
         IN  Normalised(x.neg # y.neg, x.exp + y.exp + 2 * (56 - MantissaBits),
                        product, FALSE)

\* The 53 bits as a whole number in two halves, the low one of 27 bits.
HalfBase == 2^27

Halves(bits) ==
    [hi |-> ValueOf(bits, 1, MantissaBits - 27),
     lo |-> ValueOf(bits, MantissaBits - 26, MantissaBits)]

AtLeastHalves(r, d) == r.hi > d.hi \/ (r.hi = d.hi /\ r.lo >= d.lo)

\* r - d, for r >= d
LessHalves(r, d) ==
    IF r.lo >= d.lo THEN [hi |-> r.hi - d.hi, lo |-> r.lo - d.lo]
    ELSE [hi |-> r.hi - d.hi - 1, lo |-> r.lo + HalfBase - d.lo]

\* 2 * r
TwiceHalves(r) ==
    [hi |-> 2 * r.hi + (2 * r.lo) \div HalfBase, lo |-> (2 * r.lo) % HalfBase]

\* one bit of the quotient r / d, for r < 2 * d, and what it leaves of r,
\* doubled for the next bit
Bit(r, d) == IF AtLeastHalves(r, d) THEN 1 ELSE 0

Left(r, d) == TwiceHalves(IF AtLeastHalves(r, d) THEN LessHalves(r, d) ELSE r)

\* the first 4 * k bits of r / d, one before the point and the others
\* after it, and whether the quotient ends with them
RECURSIVE Divided(_, _, _)
Divided(r, d, k) ==
    IF k = 0 THEN [bits |-> <<>>, exact |-> r.hi = 0 /\ r.lo = 0]
    ELSE LET r1 == Left(r, d)
             r2 == Left(r1, d)
             r3 == Left(r2, d)
             next == Divided(Left(r3, d), d, k - 1)
         IN  [bits |-> <<Bit(r, d), Bit(r1, d), Bit(r2, d), Bit(r3, d)>> \o next.bits,
              exact |-> next.exact]

\* x / y, for y that is not zero
Over(x, y) ==
    IF IsZero(x) THEN SignedZero(x.neg # y.neg)
    ELSE LET quotient == Divided(Halves(x.bits), Halves(y.bits), (MantissaBits + 3) \div 4)
         IN  Normalised(x.neg # y.neg, x.exp - y.exp + 1, quotient.bits, ~quotient.exact)

\* the double of a whole number below 2^31 in size
FromInteger(n) ==
    LET size == IF n < 0 THEN 0 - n ELSE n
    IN  Normalised(n < 0, 31, BitsOf(size, 31), FALSE)

\* the number that the decimal n / d is read as (d a power of ten): the
\* double nearest to it
DoubleOf(n, d) == Over(FromInteger(n), FromInteger(d))

\* Math.round(x): the nearest whole number, the greater of two equally near
MathRound(x) ==
    IF IsZero(x) \/ x.exp >= MantissaBits THEN x
    ELSE IF x.exp <= 0
    THEN LET half == x.exp = 0 /\ \A k \in 2..MantissaBits : x.bits[k] = 0
         IN  IF x.exp < 0 \/ (x.neg /\ half) THEN SignedZero(x.neg)
             ELSE [neg |-> x.neg, exp |-> 1, bits |-> <<1>> \o Zeros(MantissaBits - 1)]
    ELSE LET whole == SubSeq(x.bits, 1, x.exp)
             half == x.bits[x.exp + 1] = 1
             rest == \E k \in (x.exp + 2)..MantissaBits : x.bits[k] = 1
             up == NextUp(x.exp, whole)
         IN  IF half /\ (~x.neg \/ rest)
             THEN [neg |-> x.neg, exp |-> up.exp,
                   bits |-> up.bits \o Zeros(MantissaBits - x.exp)]
             ELSE [neg |-> x.neg, exp |-> x.exp,
                   bits |-> whole \o Zeros(MantissaBits - x.exp)]

\* Math.max(x, y) and Math.min(x, y): of 0 and -0, 0 is the greater
MathMax(x, y) ==
    IF IsZero(x) /\ IsZero(y) THEN SignedZero(x.neg /\ y.neg)
    ELSE IF LessThan(x, y) THEN y ELSE x

MathMin(x, y) ==
    IF IsZero(x) /\ IsZero(y) THEN SignedZero(x.neg \/ y.neg)
    ELSE IF LessThan(y, x) THEN y ELSE x

(***************************************************************************)
(* Plain objects used as maps (the {} of lines 30 and 42).  A name is a    *)
(* sequence of characters.  An object is the sequence of its own entries   *)
(* in the order of Object.values: names that are array indexes first, in   *)
(* ascending order, then the other names in the order of their creation.   *)
(* A lookup finds own entries and what Object.prototype gives to every     *)
(* object.                                                                 *)
(***************************************************************************)
InheritedKeys ==
    { <<"c", "o", "n", "s", "t", "r", "u", "c", "t", "o", "r">>,
      <<"_", "_", "p", "r", "o", "t", "o", "_", "_">>,
      <<"h", "a", "s", "O", "w", "n", "P", "r", "o", "p", "e", "r", "t", "y">>,
      <<"i", "s", "P", "r", "o", "t", "o", "t", "y", "p", "e", "O", "f">>,
      <<"p", "r", "o", "p", "e", "r", "t", "y", "I", "s", "E", "n", "u", "m", "e", "r", "a", "b", "l", "e">>,
      <<"t", "o", "L", "o", "c", "a", "l", "e", "S", "t", "r", "i", "n", "g">>,
      <<"t", "o", "S", "t", "r", "i", "n", "g">>,
      <<"v", "a", "l", "u", "e", "O", "f">>,
      <<"_", "_", "d", "e", "f", "i", "n", "e", "G", "e", "t", "t", "e", "r", "_", "_">>,
      <<"_", "_", "d", "e", "f", "i", "n", "e", "S", "e", "t", "t", "e", "r", "_", "_">>,
      <<"_", "_", "l", "o", "o", "k", "u", "p", "G", "e", "t", "t", "e", "r", "_", "_">>,
      <<"_", "_", "l", "o", "o", "k", "u", "p", "S", "e", "t", "t", "e", "r", "_", "_">> }

\* the greatest array index, 2^32 - 2
LastArrayIndex == <<"4", "2", "9", "4", "9", "6", "7", "2", "9", "4">>

IsDigits(name) ==
    \A k \in 1..Len(name) : \E d \in 1..Len(DecimalDigits) : DecimalDigits[d] = name[k]

\* a before b, for two texts of decimal digits without leading zero
IndexLess(a, b) ==
    \/ Len(a) < Len(b)
    \/ /\ Len(a) = Len(b)
       /\ \E k \in 1..Len(a) :
            /\ DigitValue(a[k]) < DigitValue(b[k])
            /\ \A j \in 1..(k - 1) : a[j] = b[j]

\* the name is the canonical text of an integer from 0 to 2^32 - 2
IsArrayIndex(name) ==
    /\ Len(name) > 0
    /\ IsDigits(name)
    /\ Len(name) = 1 \/ name[1] # "0"
    /\ name = LastArrayIndex \/ IndexLess(name, LastArrayIndex)

\* name a is listed before name b, b being the newer of the two
ListedBefore(a, b) ==
    IF IsArrayIndex(b) THEN IsArrayIndex(a) /\ IndexLess(a, b) ELSE TRUE

HasOwn(object, name) == \E k \in 1..Len(object) : object[k].key = name

\* !object[name] is false: the lookup finds something, own or inherited
Found(object, name) == HasOwn(object, name) \/ name \in InheritedKeys

OwnAt(object, name) == CHOOSE k \in 1..Len(object) : object[k].key = name

\* object[name] = value, for a name the object does not have
WithNew(object, name, value) ==
    LET ahead == Cardinality({k \in 1..Len(object) : ListedBefore(object[k].key, name)})
    IN  SubSeq(object, 1, ahead) \o <<[key |-> name, value |-> value]>>
          \o SubSeq(object, ahead + 1, Len(object))

\* Object.values(object)
ObjectValues(object) == [k \in 1..Len(object) |-> object[k].value]

(***************************************************************************)
(* costAnalytics.byProvider on its own.                                    *)
(***************************************************************************)
Constructor == <<"c", "o", "n", "s", "t", "r", "u", "c", "t", "o", "r">>

Providers == {<<"x", "a", "i">>, <<"1">>, Constructor}
Models == {<<"o", "1">>, <<"7">>, Constructor}

\* cost in dollars, tokens and the optional cache tokens of one request
Usages ==
    { [cost |-> DoubleOf(1, 10), inputTokens |-> 20, outputTokens |-> 1,
       cacheReadTokens |-> Absent, cacheWriteTokens |-> Some(2)],
      [cost |-> DoubleOf(4, 10), inputTokens |-> 10, outputTokens |-> 5,
       cacheReadTokens |-> Some(4), cacheWriteTokens |-> Absent] }

CostRecord(p, m, t, u) ==
    [provider |-> p, model |-> m, timestamp |-> t, cost |-> u.cost,
     inputTokens |-> u.inputTokens, outputTokens |-> u.outputTokens,
     cacheReadTokens |-> u.cacheReadTokens, cacheWriteTokens |-> u.cacheWriteTokens]

\* the query is asked for the records from SinceMs on
SinceMs == 2

\* records stamped SinceMs, and older records
CostRecords ==
    { CostRecord(p, m, SinceMs, u) : p \in Providers, m \in Models, u \in Usages }
      \cup { CostRecord(p, <<"o", "1">>, SinceMs - 1, u) : p \in Providers, u \in Usages }

RECURSIVE ListsUpTo(_, _)
ListsUpTo(S, n) ==
    IF n = 0 THEN {<<>>}
    ELSE LET shorter == ListsUpTo(S, n - 1)
         IN  shorter \cup {Append(l, x) : l \in shorter, x \in S}

\* r.cacheReadTokens ?? 0
OrZero(opt) == IF opt = Absent THEN 0 ELSE opt[1]

\* lines 10-13: the records with timestamp >= sinceMs
RecordsSince(records, sinceMs) ==
    SelectSeq(records, LAMBDA r : r.timestamp >= sinceMs)

\* lines 53-59: the record added to the models of its provider.  For a
\* model name that Object.prototype gives to every object, line 53 finds
\* the inherited value, no entry is made, and lines 56-59 write to that
\* value.
AddToModels(models, r) ==
    IF ~HasOwn(models, r.model) /\ r.model \in InheritedKeys THEN models
    ELSE LET with == IF Found(models, r.model) THEN models
                     ELSE WithNew(models, r.model,
                                  [model |-> r.model, cost |-> ZeroDouble, input |-> 0,
                                   output |-> 0, requests |-> 0])
             k == OwnAt(with, r.model)
         IN  [with EXCEPT ![k].value =
                 [@ EXCEPT !.cost = Plus(@, r.cost),
                           !.input = @ + r.inputTokens,
                           !.output = @ + r.outputTokens,
                           !.requests = @ + 1]]

\* what the loop has built, and whether it has thrown
NoProviders == [thrown |-> FALSE, byProvider |-> <<>>]

\* lines 33-59: the record added to the entry of its provider.  For a
\* provider name that Object.prototype gives to every object, line 33 finds
\* the inherited value, no entry is made, and line 53 throws a TypeError,
\* as that value has no models.
AddToProviders(acc, r) ==
    IF acc.thrown THEN acc
    ELSE IF ~HasOwn(acc.byProvider, r.provider) /\ r.provider \in InheritedKeys
    THEN [acc EXCEPT !.thrown = TRUE]
    ELSE LET with == IF Found(acc.byProvider, r.provider) THEN acc.byProvider
                     ELSE WithNew(acc.byProvider, r.provider,
                                  [provider |-> r.provider, totalCost |-> ZeroDouble,
                                   totalInput |-> 0, totalOutput |-> 0,
                                   totalCacheRead |-> 0, totalCacheWrite |-> 0,
                                   requestCount |-> 0, models |-> <<>>])
             k == OwnAt(with, r.provider)
         IN  [acc EXCEPT !.byProvider =
                 [with EXCEPT ![k].value =
                     [@ EXCEPT !.totalCost = Plus(@, r.cost),
                               !.totalInput = @ + r.inputTokens,
                               !.totalOutput = @ + r.outputTokens,
                               !.totalCacheRead = @ + OrZero(r.cacheReadTokens),
                               !.totalCacheWrite = @ + OrZero(r.cacheWriteTokens),
                               !.requestCount = @ + 1,
                               !.models = AddToModels(@, r)]]]

\* line 32: the loop over the records
RECURSIVE Accumulate(_, _, _)
Accumulate(records, k, acc) ==
    IF k > Len(records) THEN acc
    ELSE Accumulate(records, k + 1, AddToProviders(acc, records[k]))

\* line 62: Array.prototype.sort with (a, b) => b.totalCost - a.totalCost,
\* a stable sort: entry x goes behind the entries that do not cost less
InsertByTotalCost(sorted, x) ==
    LET ahead == Cardinality({k \in 1..Len(sorted) :
                                 ~LessThan(sorted[k].totalCost, x.totalCost)})
    IN  SubSeq(sorted, 1, ahead) \o <<x>> \o SubSeq(sorted, ahead + 1, Len(sorted))

RECURSIVE SortByTotalCost(_, _, _)
SortByTotalCost(entries, k, sorted) ==
    IF k > Len(entries) THEN sorted
    ELSE SortByTotalCost(entries, k + 1, InsertByTotalCost(sorted, entries[k]))

\* the outcome of the query: the list it returns, or the error it throws
Returned(value) == [error |-> "", value |-> value]
Thrown(error) == [error |-> error, value |-> <<>>]

byProvider(records, sinceMs) ==
    LET acc == Accumulate(RecordsSince(records, sinceMs), 1, NoProviders)
    IN  IF acc.thrown THEN Thrown("TypeError")
        ELSE Returned(SortByTotalCost(ObjectValues(acc.byProvider), 1, <<>>))

AnalyticsFrame ==
    UNCHANGED <<schemaEnforced, ruleVars, dedupVars, trackerVars, raceVars,
                now, alerts, channels, disp, lastEvent, opsLeft>>

\* a query about to be called with the table it will read and its arguments
Asked(fn, arg) == [fn |-> "ask", arg |-> [fn |-> fn, with |-> arg], result |-> 0]

CallByProvider ==
    /\ call.fn = "ask"
    /\ call.arg.fn = "byProvider"
    /\ call' = [fn |-> "byProvider", arg |-> call.arg.with,
                result |-> byProvider(call.arg.with.records, call.arg.with.sinceMs)]
    /\ AnalyticsFrame

\* the state in which a query is called: nothing of the pipeline has run
InitQuery ==
    /\ now = BaseDelayMs
    /\ alerts = [id \in SeedAlertIds |-> NewAlert("critical", {"discord"})]
    /\ channels = [id \in ChannelIds |-> FreeSlot]
    /\ disp = IdleDispatcher
    /\ lastEvent = NoEvent
    /\ opsLeft = 0
    /\ schemaEnforced = TRUE
    /\ RulesAtRest
    /\ DedupAtRest
    /\ TrackerAtRest
    /\ disp2 = IdleDispatcher
    /\ postLog = NoPostLog

InitCosts ==
    /\ InitQuery
    /\ \E records \in ListsUpTo(CostRecords, MaxCostRecords) :
         call = Asked("byProvider", [records |-> records, sinceMs |-> SinceMs])

NextCosts == CallByProvider

SpecCosts == InitCosts /\ [][NextCosts]_vars

(***************************************************************************)
(* forecasting.budgetForecast on its own.  Times are numbers of            *)
(* milliseconds, amounts are numbers of dollars, and null is Absent.       *)
(***************************************************************************)
MsPerDay == FromInteger(86400000)

\* lines 218-231
getPeriodMs(period) ==
    CASE period = "hourly" -> FromInteger(3600000)
      [] period = "daily" -> MsPerDay
      [] period = "weekly" -> Times(FromInteger(7), MsPerDay)
      [] period = "monthly" -> Times(FromInteger(30), MsPerDay)
      [] OTHER -> MsPerDay

\* x >= k, for a whole number k
AtLeast(x, k) == ~LessThan(x, FromInteger(k))

\* lines 233-240
getStatus(percentUsed, projectedPercent) ==
    IF AtLeast(percentUsed, 90) \/ AtLeast(projectedPercent, 120) THEN "critical"
    ELSE IF AtLeast(percentUsed, 70) \/ AtLeast(projectedPercent, 100) THEN "warning"
    ELSE "healthy"

\* Math.round(x * unit) / unit
Rounded(x, unit) == Over(MathRound(Times(x, FromInteger(unit))), FromInteger(unit))

\* lines 27-37: limitDollars > 0 ? (amount / limitDollars) * 100 : 0
PercentOfLimit(amount, limitDollars) ==
    IF LessThan(ZeroDouble, limitDollars)
    THEN Times(Over(amount, limitDollars), FromInteger(100))
    ELSE ZeroDouble

\* line 47
NumPoints == 30

\* lines 49-57: point i of the chart
ProjectionPoint(budget, t, periodMs, periodStart, dailyBurnRate, i) ==
    LET at == Plus(periodStart, Over(Times(periodMs, FromInteger(i)), FromInteger(NumPoints)))
        daysFromStart == Over(Minus(at, periodStart), MsPerDay)
        projected == Times(dailyBurnRate, daysFromStart)
    IN  [timestamp |-> at,
         actual |-> IF ~LessThan(t, at)
                    THEN Some(MathMin(budget.currentSpend, Times(dailyBurnRate, daysFromStart)))
                    ELSE Absent,
         projected |-> projected,
         limit |-> budget.limitDollars]

\* lines 13-78: the forecast of one budget at time t
Forecast(budget, t) ==
    LET periodMs == getPeriodMs(budget.period)
        periodStart == Minus(budget.resetAt, periodMs)
        elapsed == Minus(t, periodStart)
        remaining == Minus(budget.resetAt, t)
        elapsedDays == MathMax(Over(elapsed, MsPerDay), DoubleOf(1, 100))
        dailyBurnRate == Over(budget.currentSpend, elapsedDays)
        remainingDays == Over(remaining, MsPerDay)
        projectedSpend == Plus(budget.currentSpend, Times(dailyBurnRate, remainingDays))
        percentUsed == PercentOfLimit(budget.currentSpend, budget.limitDollars)
        projectedPercent == PercentOfLimit(projectedSpend, budget.limitDollars)
        \* Infinity, which line 71 turns into null, is Absent
        daysUntilExhausted ==
            IF LessThan(ZeroDouble, dailyBurnRate)
            THEN Some(Over(Minus(budget.limitDollars, budget.currentSpend), dailyBurnRate))
            ELSE Absent
    IN  [budgetId |-> budget._id, name |-> budget.name, period |-> budget.period,
         limitDollars |-> budget.limitDollars, currentSpend |-> budget.currentSpend,
         dailyBurnRate |-> Rounded(dailyBurnRate, 10000),
         projectedSpend |-> Rounded(projectedSpend, 100),
         percentUsed |-> Rounded(percentUsed, 10),
         projectedPercent |-> Rounded(projectedPercent, 10),
         daysUntilExhausted |->
             IF daysUntilExhausted = Absent THEN Absent
             ELSE Some(Rounded(daysUntilExhausted[1], 10)),
         resetAt |-> budget.resetAt, hardStop |-> budget.hardStop,
         projectionPoints |->
             [k \in 1..(NumPoints + 1) |->
                 ProjectionPoint(budget, t, periodMs, periodStart, dailyBurnRate, k - 1)],
         status |-> getStatus(percentUsed, projectedPercent)]

\* line 12 and 60: one forecast for each active budget, in table order
RECURSIVE ForecastsFrom(_, _, _)
ForecastsFrom(budgets, t, k) ==
    IF k > Len(budgets) THEN <<>>
    ELSE (IF budgets[k].isActive THEN <<Forecast(budgets[k], t)>> ELSE <<>>)
             \o ForecastsFrom(budgets, t, k + 1)

budgetForecast(budgets, t) == ForecastsFrom(budgets, t, 1)

\* the time of the call: 1000 hours
ForecastTime == Times(FromInteger(1000), FromInteger(3600000))

\* limitDollars and currentSpend: no limit, a budget partly spent, one
\* spent to nine tenths and one spent in full
Spendings ==
    { [limitDollars |-> FromInteger(0), currentSpend |-> FromInteger(7)],
      [limitDollars |-> FromInteger(10), currentSpend |-> FromInteger(7)],
      [limitDollars |-> FromInteger(9), currentSpend |-> DoubleOf(81, 10)],
      [limitDollars |-> FromInteger(10), currentSpend |-> FromInteger(10)] }

\* period and resetAt: a week that ends in twelve hours, and a period
\* of no known name that ends in two days and so has not begun
Periods ==
    { [period |-> "weekly", resetAt |-> Plus(ForecastTime, FromInteger(12 * 3600000))],
      [period |-> "yearly", resetAt |-> Plus(ForecastTime, FromInteger(48 * 3600000))] }

BudgetRows ==
    { [isActive |-> a, limitDollars |-> s.limitDollars, currentSpend |-> s.currentSpend,
       period |-> p.period, resetAt |-> p.resetAt] :
        a \in BOOLEAN, s \in Spendings, p \in Periods }

\* the rows of a table with their ids
WithIds(rows) == [k \in 1..Len(rows) |->
    [_id |-> k, name |-> "budget", isActive |-> rows[k].isActive,
     limitDollars |-> rows[k].limitDollars, currentSpend |-> rows[k].currentSpend,
     period |-> rows[k].period, resetAt |-> rows[k].resetAt, hardStop |-> FALSE]]

CallBudgetForecast ==
    /\ call.fn = "ask"
    /\ call.arg.fn = "budgetForecast"
    /\ call' = [fn |-> "budgetForecast", arg |-> call.arg.with,
                result |-> budgetForecast(call.arg.with.budgets, call.arg.with.now)]
    /\ AnalyticsFrame

InitForecast ==
    /\ InitQuery
    /\ \E rows \in ListsUpTo(BudgetRows, MaxBudgets) :
         call = Asked("budgetForecast", [budgets |-> WithIds(rows), now |-> ForecastTime])

NextForecast == CallBudgetForecast

SpecForecast == InitForecast /\ [][NextForecast]_vars

(***************************************************************************)
(* computeRetryDelayMs on its own.  Its one caller is the catch block of   *)
(* the dispatcher (lines 112-113), which passes the stored number of       *)
(* failed attempts plus one: every such number of the range is an input.   *)
(***************************************************************************)
AttemptNumbers == 1..MaxAttemptNumber

\* An alert as the dispatcher has left it after n failed attempts.
AlertAfterFailures(n) ==
    IF n = 0 THEN NewAlert("critical", {"discord"})
    ELSE RetryingAlert("critical", {"discord"}, n, BaseDelayMs)

InitBackoff ==
    /\ now = BaseDelayMs
    /\ \E failed \in [SeedAlertIds -> {n - 1 : n \in AttemptNumbers}] :
         alerts = [id \in SeedAlertIds |-> AlertAfterFailures(failed[id])]
    /\ channels = [id \in ChannelIds |-> FreeSlot]
    /\ disp = IdleDispatcher
    /\ lastEvent = NoEvent
    /\ opsLeft = 0
    /\ call = NoCall
    /\ schemaEnforced = TRUE
    /\ RulesAtRest
    /\ DedupAtRest
    /\ TrackerAtRest
    /\ disp2 = IdleDispatcher
    /\ postLog = NoPostLog

\* The catch block for one alert: the attempt number, its delay, and the
\* failure recorded with the time of the next attempt.
CallComputeRetryDelayMs ==
    /\ call = NoCall
    /\ \E id \in AlertIds :
         LET attempts == alerts[id].notificationAttempts + 1
             delay == computeRetryDelayMs(attempts)
         IN  /\ attempts \in AttemptNumbers
             /\ call' = [fn |-> "computeRetryDelayMs", arg |-> attempts,
                         result |-> delay]
             /\ alerts' = markNotificationAttemptFailed(alerts, id, "fetch failed",
                                                        now + delay)
    /\ UNCHANGED <<schemaEnforced, ruleVars, dedupVars, trackerVars, raceVars,
                 now, channels, disp, lastEvent, opsLeft>>

NextBackoff == CallComputeRetryDelayMs

SpecBackoff == InitBackoff /\ [][NextBackoff]_vars

(***************************************************************************)
(* Properties.  The definitions below restate what is claimed, in the      *)
(* claim's own terms, without using the operators of the model that        *)
(* compute the same thing.                                                 *)
(***************************************************************************)
\* min(60s * 2^(n-1), 30min).  From n = 17 on the product is beyond the cap
\* (and beyond 32 bits).
ClaimedBackoff(n) ==
    IF n > 16 THEN 1800000
    ELSE IF 60000 * 2 ^ (n - 1) < 1800000 THEN 60000 * 2 ^ (n - 1) ELSE 1800000

\* a 2xx response
Claimed2xx(outcome) ==
    outcome.kind = "response" /\ outcome.status \in 200..299

\* the severities a channel accepts
AcceptedSeverities(channel) ==
    IF channel.config.severities = Absent THEN {"warning", "critical"}
    ELSE channel.config.severities[1]

\* the channel of the cycle's snapshot with the given id
SnapshotChannel(id) ==
    disp.discordChannels[CHOOSE k \in 1..Len(disp.discordChannels) :
                             disp.discordChannels[k]._id = id]

\* a step of the dispatcher that posted
PostStep == disp' # disp /\ lastEvent'.kind = "post"

\* a step in which a post of the dispatcher fails: fetch throws, or it
\* returns a response that is not 2xx
FailedPostStep == PostStep /\ ~Claimed2xx(lastEvent'.outcome)

\* the step in which the failure of a post is caught: the time of the failure
CatchStep == disp.pc \in {"alert", "body"} /\ disp'.pc = "record"

\* the step that records a failed attempt, and the one that marks an alert sent
RecordStep == lastEvent'.kind = "record"
MarkStep == lastEvent'.kind = "mark"

\* the call of the dispatcher is inside its loop over the page
InLoop == disp.pc \in {"alert", "mark", "body", "record", "waiting"}

\* the alerts of the page the cycle is done with
ProcessedIndexes ==
    IF InLoop THEN 1..(disp.i - 1) ELSE {}

\* C1: the k-th consecutive failure of an alert schedules nextAttemptAt at the
\* time of the failure plus min(60s * 2^(k-1), 30min): +60s, +120s, +240s for
\* the first three failures and never more than +30min; that time is what
\* is stored with the k-th attempt.
C1_BackoffSchedule ==
    [][/\ CatchStep =>
            LET k == alerts[disp.pending[disp.i]._id].notificationAttempts + 1
                delay == disp'.nextAttemptAt - now
            IN  /\ delay = ClaimedBackoff(k)
                /\ (k = 1 => delay = 60000)
                /\ (k = 2 => delay = 120000)
                /\ (k = 3 => delay = 240000)
                /\ delay <= 1800000
       /\ \A a \in AlertIds :
            alerts'[a].notificationAttempts # alerts[a].notificationAttempts =>
                /\ disp.pc = "record"
                /\ disp.pending[disp.i]._id = a
                /\ alerts'[a].notificationAttempts = alerts[a].notificationAttempts + 1
                /\ alerts'[a].nextAttemptAt = disp.nextAttemptAt]_vars

\* C1 witness: the third failure in a row of an alert has just been
\* recorded, and the alert waits 240s, while another alert has failed beyond
\* the point where the doubling passes the cap and waits 30min.
C1_Witness ==
    /\ lastEvent.kind = "record"
    /\ alerts[lastEvent.alert].notificationAttempts = 3
    /\ alerts[lastEvent.alert].nextAttemptAt = now + 240000
    /\ \E b \in AlertIds :
         /\ alerts[b].notificationAttempts > PastFailures
         /\ alerts[b].nextAttemptAt >= 1800000 + 60000

\* C2: computeRetryDelayMs(n) = min(60000 * 2^(n-1), 1800000) for every
\* n >= 1, hence between 60s and 30min.
C2_RetryDelayFormula ==
    (call.fn = "computeRetryDelayMs" /\ call.arg >= 1) =>
        /\ call.result = ClaimedBackoff(call.arg)
        /\ call.result >= 60000
        /\ call.result <= 1800000

\* C2 witness: the first attempt number whose doubled delay passes the cap.
C2_Witness ==
    /\ call.fn = "computeRetryDelayMs"
    /\ call.arg = 6
    /\ call.result = 1800000

\* C3 (as claimed): an alert is posted only to channels that the alert's own
\* channels list names.
C3_PostedOnlyToListedChannels ==
    lastEvent.kind = "post" =>
        SnapshotChannel(lastEvent.channel).type \in alerts[lastEvent.alert].channels

\* C4: an alert is never posted to a channel whose accepted severities (as
\* read by the cycle) do not contain the alert's severity; when the usable
\* channels of a cycle accept critical alerts only, a warning alert of the
\* page is marked sent by that cycle and no failed attempt is recorded.
C4_SeverityFilter ==
    /\ lastEvent.kind = "post" =>
         alerts[lastEvent.alert].severity
             \in AcceptedSeverities(SnapshotChannel(lastEvent.channel))
    /\ \A idx \in ProcessedIndexes :
         LET al == disp.pending[idx]
         IN  (/\ al.severity = "warning"
              /\ \A k \in 1..Len(disp.discordChannels) :
                   disp.discordChannels[k].config.severities = Some({"critical"}))
             => /\ alerts[al._id].notificationSent
                /\ alerts[al._id].notificationAttempts = al.notificationAttempts

\* C4 witness: the only channel accepts critical alerts only, and a warning
\* alert has just been passed over and marked sent, never having failed.
C4_Witness ==
    /\ lastEvent.kind = "skip"
    /\ alerts[lastEvent.alert].severity = "warning"
    /\ Len(list(channels)) = 1
    /\ Len(disp.discordChannels) = 1
    /\ disp.discordChannels[1].config.severities = Some({"critical"})
    /\ alerts[lastEvent.alert].notificationSent
    /\ alerts[lastEvent.alert].notificationAttempts = 0
    /\ alerts[lastEvent.alert].nextAttemptAt = 0

\* no channel of the cycle's snapshot accepts the alert
NoChannelAccepts(al) ==
    \A k \in 1..Len(disp.discordChannels) :
        al.severity \notin AcceptedSeverities(disp.discordChannels[k])

\* C5: when no channel matches an alert, the cycle marks it sent without a
\* post, leaves notificationAttempts, nextAttemptAt and lastError alone, and
\* no later fetch returns an alert that is marked sent.
C5_NoTargetMarksSent ==
    [][/\ (/\ disp.pc = "alert"
           /\ disp.i <= Len(disp.pending)
           /\ disp' # disp
           /\ NoChannelAccepts(disp.pending[disp.i]))
          => LET a == disp.pending[disp.i]._id
             IN  /\ alerts'[a].notificationSent
                 /\ alerts'[a].notificationAttempts = alerts[a].notificationAttempts
                 /\ alerts'[a].nextAttemptAt = alerts[a].nextAttemptAt
                 /\ alerts'[a].lastError = alerts[a].lastError
                 /\ lastEvent'.kind # "post"
       /\ (disp.pc = "idle" /\ disp'.pc = "channels")
          => \A k \in 1..Len(disp'.pending) :
                ~alerts[disp'.pending[k]._id].notificationSent]_vars

\* C5 witness: an alert has just been passed over: it is marked sent, has no
\* recorded attempt and no retry time.
C5_Witness ==
    /\ lastEvent.kind = "skip"
    /\ alerts[lastEvent.alert].notificationSent
    /\ alerts[lastEvent.alert].notificationAttempts = 0
    /\ alerts[lastEvent.alert].nextAttemptAt = 0
    /\ alerts[lastEvent.alert].lastError = ""

\* C6: a channel without severities is a target of exactly the warning and
\* critical alerts and is never posted an info alert; a channel created
\* without severities is stored with severities = [warning, critical].
C6_DefaultSeverities ==
    /\ (disp.pc = "alert" /\ disp.i <= Len(disp.pending)) =>
         \A k \in 1..Len(disp.discordChannels) :
             disp.discordChannels[k].config.severities = Absent =>
                 ((\E t \in 1..Len(CurrentTargets) :
                      CurrentTargets[t]._id = disp.discordChannels[k]._id)
                  <=> CurrentAlert.severity \in {"warning", "critical"})
    /\ (/\ lastEvent.kind = "post"
        /\ SnapshotChannel(lastEvent.channel).config.severities = Absent)
       => alerts[lastEvent.alert].severity \in {"warning", "critical"}
    /\ (lastEvent.kind = "create" /\ lastEvent.severities = Absent)
       => channels[lastEvent.channel].config.severities = Some({"warning", "critical"})

\* C6 witness: a warning alert has just been posted to a channel stored
\* without severities, beside a channel that was created without severities
\* and is stored with the default.
C6_Witness ==
    /\ lastEvent.kind = "post"
    /\ SnapshotChannel(lastEvent.channel).config.severities = Absent
    /\ alerts[lastEvent.alert].severity = "warning"
    /\ \E id \in ChannelIds :
         /\ id # lastEvent.channel
         /\ channels[id].status = "live"
         /\ channels[id].config.severities = Some({"warning", "critical"})

\* A post that does not return 2xx leaves the alert as it is and leads, by
\* way of the catch block, to the step that records one failed attempt: the
\* alert is not marked sent, and the cycle is done with the alert.
C7_FailStep ==
    /\ FailedPostStep =>
          /\ lastEvent'.alert = disp.pending[disp.i]._id
          /\ disp'.pc \in {"body", "record"}
          /\ disp'.i = disp.i
          /\ alerts' = alerts
    /\ (disp.pc = "body" /\ disp' # disp) => (disp'.pc = "record" /\ disp'.i = disp.i)
    /\ (disp.pc = "record" /\ disp' # disp) =>
          LET a == disp.pending[disp.i]._id
          IN  /\ RecordStep
              /\ lastEvent'.alert = a
              /\ ~alerts'[a].notificationSent
              /\ alerts'[a].notificationAttempts = alerts[a].notificationAttempts + 1
              /\ disp'.i = disp.i + 1
              /\ disp'.retried = disp.retried + 1
              /\ disp'.delivered = disp.delivered

\* Every alert the cycle is done with is either marked sent, with the attempt
\* count of the page, or not marked sent, with one attempt more.
C7_Processed ==
    \A idx \in ProcessedIndexes :
        LET al == disp.pending[idx]
        IN  \/ /\ alerts[al._id].notificationSent
               /\ alerts[al._id].notificationAttempts = al.notificationAttempts
            \/ /\ ~alerts[al._id].notificationSent
               /\ alerts[al._id].notificationAttempts = al.notificationAttempts + 1

\* C7: if the post to one target channel of an alert does not return 2xx,
\* the alert is not marked sent in that cycle, whatever succeeded before, and
\* exactly one failed attempt is recorded for it in the cycle.
C7_AllOrNothing == [](C7_Processed) /\ [][C7_FailStep]_vars

\* C7 witness: the post to the second of two target channels has just
\* thrown (the first had succeeded): the alert is not marked sent, and the
\* catch block is about to record its first failed attempt.
C7_Witness ==
    /\ lastEvent.kind = "post"
    /\ ~Claimed2xx(lastEvent.outcome)
    /\ lastEvent.channel = 2
    /\ Len(disp.discordChannels) = 2
    /\ \A k \in 1..2 :
         alerts[lastEvent.alert].severity \in AcceptedSeverities(disp.discordChannels[k])
    /\ ~alerts[lastEvent.alert].notificationSent
    /\ disp.pc = "record"
    /\ disp.nextAttemptAt = now + 60000

\* C8 (as claimed): no post of an alert happens once the alert is resolved.
C8_NoPostAfterResolve ==
    lastEvent.kind = "post" => ~alerts[lastEvent.alert].resolved

\* C9: once an alert is marked sent it stays so, and no step posts it or
\* changes its attempt count, retry time or error, acknowledged or resolved
\* as it may be.
C9_SentIsTerminal ==
    [][\A a \in AlertIds :
         alerts[a].notificationSent =>
             /\ alerts'[a].notificationSent
             /\ alerts'[a].notificationAttempts = alerts[a].notificationAttempts
             /\ alerts'[a].nextAttemptAt = alerts[a].nextAttemptAt
             /\ alerts'[a].lastError = alerts[a].lastError
             /\ ~(PostStep /\ lastEvent'.alert = a)]_vars

\* C9 witness: a later cycle is at work on another alert while an alert
\* that was posted and marked sent, and then resolved, stays as it was.
C9_Witness ==
    \E a \in AlertIds :
        /\ alerts[a].notificationSent
        /\ alerts[a].resolved
        /\ disp.pc = "alert"
        /\ disp.i <= Len(disp.pending)
        /\ \A k \in 1..Len(disp.pending) : disp.pending[k]._id # a
        /\ alerts[disp.pending[disp.i]._id].notificationAttempts > 0
        /\ disp.startedAt > BaseDelayMs

\* C10: a failure caught at time t for the n-th attempt of an alert gives
\* the retry time t + backoff(n), which is what the recorded failure stores
\* as nextAttemptAt; nothing else changes nextAttemptAt; and an alert is
\* posted only by a cycle that started at or after its nextAttemptAt (or
\* while it had none).
C10_NotBeforeBackoff ==
    [][/\ CatchStep =>
            disp'.nextAttemptAt
                = now + ClaimedBackoff(alerts[disp.pending[disp.i]._id].notificationAttempts + 1)
       /\ \A a \in AlertIds :
            /\ (PostStep /\ lastEvent'.alert = a) =>
                  \/ alerts[a].nextAttemptAt = 0
                  \/ alerts[a].nextAttemptAt <= disp.startedAt
            /\ alerts'[a].nextAttemptAt # alerts[a].nextAttemptAt =>
                  /\ RecordStep
                  /\ lastEvent'.alert = a
                  /\ alerts'[a].notificationAttempts = alerts[a].notificationAttempts + 1
                  /\ alerts'[a].nextAttemptAt = disp.nextAttemptAt]_vars

\* C10 witness: an alert that failed once, at the start, has just been
\* marked sent after a post by a cycle that started when its 60s were over.
C10_Witness ==
    /\ lastEvent.kind = "mark"
    /\ alerts[lastEvent.alert].notificationAttempts = 1
    /\ alerts[lastEvent.alert].nextAttemptAt = BaseDelayMs + 60000
    /\ alerts[lastEvent.alert].notificationSent
    /\ disp.startedAt >= alerts[lastEvent.alert].nextAttemptAt

\* C11 (as claimed): an alert's notificationAttempts changes only in the
\* step that records a failed attempt of that alert, and then by exactly 1;
\* that step is reached only from a post that did not return 2xx; a post
\* that returns 2xx, the step that marks the alert sent and the pass over an
\* alert without target channel leave it alone, and at no point of a cycle
\* does an alert of the page have more than one attempt more than it had in
\* the page.
C11_AttemptsCountFailures ==
    /\ [][/\ \A a \in AlertIds :
              /\ alerts'[a].notificationAttempts # alerts[a].notificationAttempts =>
                    /\ RecordStep
                    /\ lastEvent'.alert = a
                    /\ alerts'[a].notificationAttempts
                          = alerts[a].notificationAttempts + 1
              /\ (lastEvent'.kind \in {"post", "mark", "skip"} /\ lastEvent'.alert = a) =>
                    alerts'[a].notificationAttempts = alerts[a].notificationAttempts
          /\ (disp.pc # "record" /\ disp'.pc = "record") =>
                \/ FailedPostStep /\ lastEvent'.outcome.kind = "throw"
                \/ disp.pc = "body"
          /\ (disp.pc # "body" /\ disp'.pc = "body") => FailedPostStep
          /\ (PostStep /\ Claimed2xx(lastEvent'.outcome)) =>
                disp'.pc \in {"alert", "mark"}
          /\ RecordStep => disp.pc = "record"]_vars
    /\ [](InLoop =>
            \A k \in 1..Len(disp.pending) :
                alerts[disp.pending[k]._id].notificationAttempts
                    - disp.pending[k].notificationAttempts \in {0, 1})

\* C12: an alert whose delivery has failed n times, whatever n, and that is
\* neither marked sent nor resolved is attempted again (it fails once more,
\* is marked sent or is resolved), and once the channels accept posts every
\* failed alert ends marked sent, unless it was resolved.
C12_RetriedUntilSent ==
    \A a \in SeedAlertIds :
        /\ \A n \in 1..(PastFailures + MaxFailures) :
              (alerts[a].notificationAttempts = n /\ ~alerts[a].notificationSent)
                 ~> \/ alerts[a].notificationAttempts > n
                    \/ alerts[a].notificationSent
                    \/ alerts[a].resolved
        /\ (alerts[a].notificationAttempts > 0 /\ ~alerts[a].notificationSent)
              ~> (alerts[a].notificationSent \/ alerts[a].resolved)

\* C12 witness: an alert that went on failing after its delay had reached
\* the cap has been posted with success, 30min later or more, and has just
\* been marked sent.
C12_Witness ==
    /\ lastEvent.kind = "mark"
    /\ alerts[lastEvent.alert].notificationAttempts > PastFailures
    /\ alerts[lastEvent.alert].notificationSent
    /\ ~alerts[lastEvent.alert].resolved
    /\ now >= BaseDelayMs + 1800000

\* the cycle has dealt with the alert at place k of its page: the alert is
\* marked sent, or one failed attempt was added to those of the page
DealtWith(k) ==
    LET al == disp.pending[k]
    IN  \/ alerts[al._id].notificationSent
        \/ alerts[al._id].notificationAttempts = al.notificationAttempts + 1

\* C13 (as claimed): a post that fails leaves the cycle running on the same
\* page; the cycle goes from the failure to the recording of it and from
\* there to the next alert of the page, so that a cycle in which a post
\* failed ends only when every alert of its page has been dealt with,
\* wherever in the page the failing alert is.
C13_FailureDoesNotAbort ==
    [][/\ FailedPostStep =>
             /\ disp'.pc \in {"body", "record"}
             /\ disp'.pending = disp.pending
             /\ disp'.discordChannels = disp.discordChannels
       /\ (disp.pc \in {"body", "record"} /\ disp' # disp) =>
             /\ disp'.pc \in {"record", "alert"}
             /\ disp'.pending = disp.pending
             /\ disp'.discordChannels = disp.discordChannels
       /\ (disp.pc = "record" /\ disp' # disp) =>
             /\ disp'.pc = "alert"
             /\ disp'.i = disp.i + 1
       /\ (disp.pc \in {"body", "record"} /\ disp'.pc = "idle") =>
             \A k \in 1..Len(disp.pending) : DealtWith(k)]_vars

\* C14 (as claimed): every delivery call comes to an end, so every dispatch
\* cycle that has started ends, and every alert of its page is dealt with,
\* also when a channel never answers.
C14_DeliveryCallsComplete ==
    /\ (disp.pc = "waiting") ~> (disp.pc # "waiting")
    /\ (disp.pc # "idle") ~> (disp.pc = "idle")

\* C15: a failed post leaves the alert stored and not marked sent, and the
\* catch block holds an error message and a retry time later than the time
\* of the failure; right after the failure has been recorded the alert is
\* still stored, is not marked sent, carries that error message and that
\* retry time and has notificationAttempts >= 1; and an alert with a
\* recorded failure keeps an error message and a retry time for as long as
\* it is stored.
C15_FailedAlertIsKept ==
    /\ [](/\ DOMAIN alerts = SeedAlertIds
          /\ lastEvent.kind = "record" =>
                /\ lastEvent.alert \in DOMAIN alerts
                /\ ~alerts[lastEvent.alert].notificationSent
                /\ alerts[lastEvent.alert].lastError # ""
                /\ alerts[lastEvent.alert].lastError = lastEvent.error
                /\ alerts[lastEvent.alert].notificationAttempts >= 1
          /\ \A a \in AlertIds :
                alerts[a].notificationAttempts >= 1 =>
                    /\ alerts[a].lastError # ""
                    /\ alerts[a].nextAttemptAt > 0)
    /\ [][/\ FailedPostStep =>
                /\ alerts' = alerts
                /\ ~alerts[lastEvent'.alert].notificationSent
          /\ CatchStep =>
                /\ disp'.error # ""
                /\ disp'.nextAttemptAt > now
          /\ RecordStep =>
                /\ alerts'[lastEvent'.alert].lastError = disp.error
                /\ alerts'[lastEvent'.alert].nextAttemptAt = disp.nextAttemptAt]_vars

\* C15 witness: a fresh alert was answered 500 and the failure has just
\* been recorded: the alert is stored, not marked sent, has the message of
\* the failure, one attempt and a retry time 60s after the failure.
C15_Witness ==
    /\ lastEvent.kind = "record"
    /\ ~alerts[lastEvent.alert].notificationSent
    /\ alerts[lastEvent.alert].lastError = "Discord webhook failed"
    /\ alerts[lastEvent.alert].notificationAttempts = 1
    /\ alerts[lastEvent.alert].nextAttemptAt = now + 60000
    /\ now > BaseDelayMs

\* C16 (as claimed): every stored channel that has config.severities has a
\* non-empty list there, of info, warning and critical only.
C16_SeveritiesNonEmpty ==
    \A id \in ChannelIds :
        (/\ channels[id].status = "live"
         /\ "config" \notin channels[id].unset
         /\ channels[id].config.severities # Absent)
        => /\ channels[id].config.severities[1] # {}
           /\ channels[id].config.severities[1] \subseteq {"info", "warning", "critical"}

\* the rule is in cooldown as claimed
ClaimedCooldown(r) ==
    /\ rules[r].lastTriggered # 0
    /\ now < rules[r].lastTriggered + rules[r].cooldownMinutes * 60000

\* C17: a rule fires only when it is not in cooldown, that is never while
\* now < lastTriggered + cooldownMinutes * 60000, whatever the evaluations
\* in between found; and the cooldown badge of the rule shows exactly while
\* now < lastTriggered + cooldownMinutes * 60000.
C17_NoFireInCooldown ==
    /\ [][\A r \in RuleIds :
            fired'[r] # fired[r] =>
                /\ ~ClaimedCooldown(r)
                /\ CooldownBadge(rules[r].lastTriggered, rules[r].cooldownMinutes, now)
                      = Absent]_vars
    /\ [](\A r \in RuleIds :
            /\ (CooldownBadge(rules[r].lastTriggered, rules[r].cooldownMinutes, now)
                   # Absent) <=> ClaimedCooldown(r)
            /\ ClaimedCooldown(r) <=> CoolingDown(rules[r], now))

\* C17 witness: a rule with a cooldown of one minute fired and has just
\* fired again, one minute after the first time and not before.
C17_Witness ==
    \E r \in RuleIds :
        /\ rules[r].cooldownMinutes = 1
        /\ Len(fired[r]) = 2
        /\ fired[r][2] = fired[r][1] + 60000
        /\ rules[r].lastTriggered = now
        /\ now = fired[r][2]

\* C18: at no time are two evaluations of one rule between their check and
\* their firing; an alert of a stored rule is created in the very step that
\* sets the rule's lastTriggered to the time of the step; and so any two
\* alerts of a rule are a cooldown apart or more: evaluations of the same
\* rule that run together create one alert at most.
C18_OneAlertPerCooldown ==
    /\ [](\A p, q \in Evaluators :
            (/\ p # q
             /\ evals[p].pc \in {"check", "fire"}
             /\ evals[q].pc \in {"check", "fire"})
            => evals[p].rule # evals[q].rule)
    /\ [](\A r \in RuleIds : \A i, j \in 1..Len(fired[r]) :
            (rules[r].status = "live" /\ i < j) =>
                fired[r][j] >= fired[r][i] + rules[r].cooldownMinutes * 60000)
    /\ [][\A r \in RuleIds :
            /\ (rules[r].status = "live" /\ rules'[r].status = "live") =>
                  ((fired'[r] # fired[r])
                      <=> (rules'[r].lastTriggered # rules[r].lastTriggered))
            /\ fired'[r] # fired[r] =>
                  /\ rules[r].status = "live"
                  /\ fired'[r] = Append(fired[r], now)
                  /\ rules'[r].lastTriggered = now
                  /\ \A i \in 1..Len(fired[r]) :
                        now >= fired[r][i] + rules[r].cooldownMinutes * 60000]_vars

\* C18 witness: two evaluations were started on the same rule; one has
\* fired, and the other, which now holds the lock, finds the rule fired at
\* this very time and cooling down.
C18_Witness ==
    \E p, q \in Evaluators, r \in RuleIds :
        /\ p # q
        /\ evals[p] = [pc |-> "check", rule |-> r]
        /\ evals[q].pc = "idle"
        /\ rules[r].isActive
        /\ rules[r].lastTriggered = now
        /\ fired[r] = <<now>>

\* 7 days, in milliseconds
ClaimedRetention == 7 * 24 * 60 * 60 * 1000

\* C19: of the calls of shouldIngest for one fingerprint, the first returns
\* true, and every call less than 7 days after a call that returned true
\* returns false, cleanups between them or not: in a window shorter than
\* the retention that begins with the first call for a fingerprint, that
\* call returns true and no other does.
C19_OneIngestPerWindow ==
    \A f \in Fingerprints :
        /\ Len(ingestLog[f]) > 0 => ingestLog[f][1].result
        /\ \A i, j \in 1..Len(ingestLog[f]) :
              (/\ i < j
               /\ ingestLog[f][i].result
               /\ ingestLog[f][j].at - ingestLog[f][i].at < ClaimedRetention)
                  => ~ingestLog[f][j].result

\* C19 witness: a fingerprint was offered three times within 7 days, a
\* cleanup having just run: the first call returned true and the two
\* others false.
C19_Witness ==
    \E f \in Fingerprints :
        /\ lastEvent.kind = "cleanup"
        /\ Len(ingestLog[f]) = 3
        /\ ingestLog[f][1].result
        /\ ~ingestLog[f][2].result
        /\ ~ingestLog[f][3].result
        /\ ingestLog[f][2].at > ingestLog[f][1].at
        /\ ingestLog[f][3].at = ingestLog[f][1].at + ClaimedRetention - 43200000
        /\ now = ingestLog[f][3].at + 43200000
        /\ ingestedCosts[f] = Some(ingestLog[f][1].at)

\* C20: a cleanup at time now leaves no entry first seen more than 7 days
\* before now, keeps every entry first seen less than 7 days before now as
\* it was, and adds none.
C20_PruneByAge ==
    /\ [][lastEvent'.kind = "cleanup" =>
            \A f \in Fingerprints :
                /\ ingestedCosts'[f] # Absent => now - ingestedCosts'[f][1] <= ClaimedRetention
                /\ (ingestedCosts[f] # Absent /\ now - ingestedCosts[f][1] < ClaimedRetention)
                      => ingestedCosts'[f] = ingestedCosts[f]
                /\ ingestedCosts[f] = Absent => ingestedCosts'[f] = Absent]_vars
    /\ [](lastEvent.kind = "cleanup" =>
            \A f \in Fingerprints :
                ingestedCosts[f] # Absent => now - ingestedCosts[f][1] <= ClaimedRetention)

\* C20 witness: a cleanup has just run on a cache that held an entry seen
\* seven and a half days ago and one seen six and a half days ago: the
\* first is gone and the second is still there.
C20_Witness ==
    /\ lastEvent.kind = "cleanup"
    /\ ingestedCosts["a"] = Absent
    /\ Len(ingestLog["a"]) = 1
    /\ now - ingestLog["a"][1].at = ClaimedRetention + 43200000
    /\ ingestedCosts["b"] # Absent
    /\ now - ingestedCosts["b"][1] = ClaimedRetention - 43200000

\* the places of the line breaks of the source
LineBreaks == {k \in 1..Len(source.content) : source.content[k] = "\n"}

\* the place of the i-th line break (0 for i = 0)
LineBreak(i) ==
    IF i = 0 THEN 0
    ELSE CHOOSE k \in LineBreaks : Cardinality({j \in LineBreaks : j <= k}) = i

\* the newline-terminated lines of the source, in file order
ClaimedLines ==
    [i \in 1..Cardinality(LineBreaks) |->
        SubSeq(source.content, LineBreak(i - 1) + 1, LineBreak(i) - 1)]

\* C21: as long as the source has only been appended to, the lines returned
\* by all polls so far are the first newline-terminated lines of the source,
\* each once and in file order, and right after a poll they are all of
\* them; bytes after the last line break are not among them.
C21_LinesOnceInOrder ==
    source.truncations = 0 =>
        /\ Len(returned) <= Len(ClaimedLines)
        /\ returned = SubSeq(ClaimedLines, 1, Len(returned))
        /\ lastPoll.polled => returned = ClaimedLines

\* C21 witness: a line was appended in two parts with a poll between them,
\* and a poll has just returned it whole and nothing else, while the source
\* ends with a byte that has no line break yet.
C21_Witness ==
    /\ source.truncations = 0
    /\ source.content = <<"a", "a", "\n", "a">>
    /\ lastPoll.polled
    /\ lastPoll.before.partialLine = <<"a">>
    /\ lastPoll.lines = << <<"a", "a">> >>
    /\ cursor.partialLine = <<"a">>
    /\ returned = << <<"a", "a">> >>

\* C22: a poll that found the size and the modification time of the source
\* equal to those of the stored cursor made no read call, returned no line
\* and left the cursor as it was.
C22_UnchangedSourceNotRead ==
    ( /\ lastPoll.polled
      /\ lastPoll.before.known
      /\ lastPoll.before.sizeBytes = Len(source.content)
      /\ lastPoll.before.modifiedAt = source.modifiedAt )
    => ( /\ lastPoll.reads = 0
         /\ lastPoll.lines = <<>>
         /\ cursor = lastPoll.before )

\* C22 witness: a source of three bytes of which a line has been returned
\* is polled again with nothing written in between.
C22_Witness ==
    /\ lastPoll.polled
    /\ lastPoll.before.known
    /\ lastPoll.before.sizeBytes = Len(source.content)
    /\ lastPoll.before.modifiedAt = source.modifiedAt
    /\ Len(source.content) = 3
    /\ returned # <<>>
    /\ lastPoll.reads = 0

\* C23: a poll that found the source smaller than the read offset of the
\* cursor read from byte 0 and returned the complete lines of the current
\* content, and the new cursor stands at the end of the last of them; the
\* read offset of a cursor never exceeds its size.
C23_TruncationResets ==
    /\ cursor.readOffset <= cursor.sizeBytes
    /\ ( lastPoll.polled /\ Len(source.content) < lastPoll.before.readOffset )
       => ( /\ lastPoll.from = 0
            /\ lastPoll.lines = ClaimedLines
            /\ cursor.readOffset = LineBreak(Cardinality(LineBreaks))
            /\ cursor.sizeBytes = Len(source.content) )

\* C23 witness: two lines had been consumed, the source was cut back to its
\* first line, and the poll returned that line again.
C23_Witness ==
    /\ lastPoll.polled
    /\ lastPoll.before.readOffset = 4
    /\ source.content = <<"a", "\n">>
    /\ lastPoll.lines = << <<"a">> >>
    /\ cursor.readOffset = 2

\* a stored channel that a cycle may post to
ClaimedUsable(row) ==
    row.isActive = TRUE /\ row.type = "discord" /\ row.config.webhookUrl # <<>>

\* C24: the channels a cycle keeps when it reads the channel table are
\* exactly the stored channels that are active, of type discord and have a
\* non-empty webhook URL at that moment, and they stay the same for the rest
\* of the cycle; every post of the cycle goes to one of them; and an alert
\* that none of them accepts is marked sent by a step that does not post.
C24_ExcludedChannelsNotPosted ==
    [][/\ (disp.pc = "channels" /\ disp'.pc = "alert") =>
            /\ \A k \in 1..Len(disp'.discordChannels) :
                 LET row == disp'.discordChannels[k]
                 IN  /\ channels[row._id].status = "live"
                     /\ ClaimedUsable(channels[row._id])
                     /\ row.isActive = channels[row._id].isActive
                     /\ row.type = channels[row._id].type
                     /\ row.config = channels[row._id].config
            /\ \A id \in ChannelIds :
                 (channels[id].status = "live" /\ ClaimedUsable(channels[id]))
                 => \E k \in 1..Len(disp'.discordChannels) :
                        disp'.discordChannels[k]._id = id
       /\ (disp.pc = "alert" /\ disp'.pc = "alert") =>
            disp'.discordChannels = disp.discordChannels
       /\ PostStep =>
            \E k \in 1..Len(disp.discordChannels) :
                /\ disp.discordChannels[k]._id = lastEvent'.channel
                /\ ClaimedUsable(disp.discordChannels[k])
       /\ (/\ disp.pc = "alert"
           /\ disp.i <= Len(disp.pending)
           /\ disp' # disp
           /\ \A k \in 1..Len(disp.discordChannels) :
                ~(/\ ClaimedUsable(disp.discordChannels[k])
                  /\ disp.pending[disp.i].severity
                        \in AcceptedSeverities(disp.discordChannels[k])))
          => /\ alerts'[disp.pending[disp.i]._id].notificationSent
             /\ lastEvent'.kind = "skip"]_vars

\* C24 witness: the only stored channel is the paused one the table started
\* with, it accepts the severity of the alert, and the alert has just been
\* marked sent without a post.
C24_Witness ==
    /\ opsLeft = MaxOperatorOps
    /\ channels[1].status = "live"
    /\ channels[1].type = "discord"
    /\ ~channels[1].isActive
    /\ lastEvent.kind = "skip"
    /\ alerts[lastEvent.alert].severity \in AcceptedSeverities(channels[1])
    /\ alerts[lastEvent.alert].notificationSent
    /\ disp.pc = "alert"
    /\ disp.discordChannels = <<>>

\* an alert that a fetch at this moment would return
ClaimedPending(a) ==
    /\ ~alerts[a].resolved
    /\ ~alerts[a].notificationSent
    /\ alerts[a].nextAttemptAt <= now

\* C25: a cycle works on a page of at most 100 alerts; at every point of its
\* loop delivered is the number of alerts of the page marked sent after
\* their posts and retried the number recorded as failed, and when the loop
\* is over delivered + retried <= checked = length of the page <= 100, with
\* the sum smaller than checked exactly when some alert of the page had no
\* matching channel; a cycle started when no alert is pending ends at once,
\* with all counts zero and without reading channels.
C25_CycleResult ==
    [][/\ (disp.pc = "idle" /\ \A a \in AlertIds : ~ClaimedPending(a)) =>
            (disp'.pc = "idle" /\ disp'.delivered = 0 /\ disp'.retried = 0)
       /\ disp'.pc = "alert" =>
            LET page == disp'.pending
                done == 1..(disp'.i - 1)
                skipped == {k \in done :
                    \A c \in 1..Len(disp'.discordChannels) :
                        page[k].severity
                            \notin AcceptedSeverities(disp'.discordChannels[c])}
                posted == {k \in done \ skipped :
                    alerts'[page[k]._id].notificationSent}
                failed == {k \in done :
                    alerts'[page[k]._id].notificationAttempts
                        = page[k].notificationAttempts + 1}
                checked == Len(page)
            IN  /\ checked \in 1..100
                /\ disp'.delivered = Cardinality(posted)
                /\ disp'.retried = Cardinality(failed)
                /\ disp'.delivered + disp'.retried <= checked
                /\ disp'.i > checked =>
                     (disp'.delivered + disp'.retried < checked <=> skipped # {})]_vars

\* C25 witness: more than 100 alerts were pending when the cycle fetched
\* its page; the page holds 100 of them and an alert that was left out is
\* still pending; the cycle is about to return checked = 100 with some
\* alerts delivered, one recorded as failed and some passed over, so that
\* delivered + retried < checked.
C25_Witness ==
    /\ disp.pc = "alert"
    /\ Len(disp.pending) = PageLimit
    /\ disp.i = PageLimit + 1
    /\ Cardinality(AlertIds) > PageLimit
    /\ \E a \in AlertIds :
         /\ ClaimedPending(a)
         /\ alerts[a].notificationAttempts = 0
         /\ \A k \in 1..Len(disp.pending) : disp.pending[k]._id # a
    /\ disp.delivered > 0
    /\ disp.retried = 1
    /\ \E k \in 1..Len(disp.pending) : NoChannelAccepts(disp.pending[k])
    /\ disp.delivered + disp.retried < PageLimit

\* C26 (as claimed): over the life of an alert no channel is posted the
\* alert more than once with success, whatever the cycles and their callers.
C26_AtMostOnePostPerChannel ==
    \A a \in AlertIds, c \in ChannelIds : postLog.count[a][c] <= 1

\* C27 (as claimed): whatever storage call fails for an alert, the cycle
\* goes on with its page, and an alert whose posts were all accepted goes on
\* to be marked sent and delivered, not to the recording of a failed attempt.
C27_StorageFailureIsolated ==
    [][/\ (InLoop /\ disp.i <= Len(disp.pending)) => disp'.pc # "idle"
       /\ disp.pc = "mark" => disp'.pc \in {"mark", "alert"}]_vars

\* C28 (as claimed): a call of notifications.update for a stored channel
\* leaves every other channel alone and, of the channel itself, changes
\* nothing that its arguments do not name: without name the name stays,
\* without config the config stays, without config.webhookUrl the URL
\* stays, without config.severities the severities stay, without isActive
\* isActive stays; a call for an id that is not stored fails with
\* "Notification channel not found" and changes no channel.
C28_UpdateChangesOnlyNamedFields ==
    [][lastEvent'.kind = "update" =>
         LET id == lastEvent'.channel
             patch == lastEvent'.patch
             before == channels[id]
             after == channels'[id]
         IN  /\ \A other \in ChannelIds \ {id} : channels'[other] = channels[other]
             /\ before.status # "live" =>
                  /\ lastEvent'.error = "Notification channel not found"
                  /\ channels' = channels
             /\ before.status = "live" =>
                  /\ after.status = "live"
                  /\ after.type = before.type
                  /\ patch.name = Absent =>
                       /\ after.name = before.name
                       /\ ("name" \in after.unset) = ("name" \in before.unset)
                  /\ patch.isActive = Absent => after.isActive = before.isActive
                  /\ patch.config = Absent =>
                       /\ after.config = before.config
                       /\ ("config" \in after.unset) = ("config" \in before.unset)
                  /\ (patch.config # Absent /\ patch.config[1].webhookUrl = Absent) =>
                       after.config.webhookUrl = before.config.webhookUrl
                  /\ (patch.config # Absent /\ patch.config[1].severities = Absent) =>
                       after.config.severities = before.config.severities]_vars

\* the sum of f over the entries of a sequence
RECURSIVE SumOver(_, _, _, _)
SumOver(seq, f(_), k, sum) ==
    IF k > Len(seq) THEN sum ELSE SumOver(seq, f, k + 1, sum + f(seq[k]))

Total(seq, f(_)) == SumOver(seq, f, 1, 0)

\* the sum of the costs f of the entries of a sequence, added in order as
\* numbers are added
RECURSIVE CostOver(_, _, _, _)
CostOver(seq, f(_), k, sum) ==
    IF k > Len(seq) THEN sum ELSE CostOver(seq, f, k + 1, Plus(sum, f(seq[k])))

TotalCost(seq, f(_)) == CostOver(seq, f, 1, ZeroDouble)

\* the records of the call at or after sinceMs
ClaimedRecords ==
    SelectSeq(call.arg.records, LAMBDA r : ~(r.timestamp < call.arg.sinceMs))

\* C29 (as claimed): byProvider conserves totals.  The query returns a
\* list; the requestCount values sum to the number of records at or after
\* sinceMs; each provider's totalCost, totalInput and totalOutput are the
\* sums over its models entries; each provider and, within a provider,
\* each model has one entry, whose count is the number of records of that
\* provider and model, so that every record is counted under exactly one
\* provider and one model; and the list is in descending order of
\* totalCost.
C29_ByProviderConservesTotals ==
    call.fn = "byProvider" =>
        LET res == call.result.value
            recs == ClaimedRecords
            Of(p) == SelectSeq(recs, LAMBDA r : r.provider = p)
            OfModel(p, m) == SelectSeq(recs, LAMBDA r : r.provider = p /\ r.model = m)
        IN  /\ call.result.error = ""
            /\ Total(res, LAMBDA e : e.requestCount) = Len(recs)
            /\ \A i, j \in 1..Len(res) : res[i].provider = res[j].provider => i = j
            /\ \A r \in {recs[k] : k \in 1..Len(recs)} :
                 \E i \in 1..Len(res) :
                     /\ res[i].provider = r.provider
                     /\ \E m \in 1..Len(res[i].models) : res[i].models[m].key = r.model
            /\ \A i \in 1..Len(res) :
                 LET e == res[i]
                     models == [k \in 1..Len(e.models) |-> e.models[k].value]
                 IN  /\ e.totalCost = TotalCost(models, LAMBDA m : m.cost)
                     /\ e.totalInput = Total(models, LAMBDA m : m.input)
                     /\ e.totalOutput = Total(models, LAMBDA m : m.output)
                     /\ e.requestCount = Total(models, LAMBDA m : m.requests)
                     /\ e.requestCount = Len(Of(e.provider))
                     /\ e.requestCount > 0
                     /\ \A a, b \in 1..Len(models) :
                          models[a].model = models[b].model => a = b
                     /\ \A a \in 1..Len(models) :
                          /\ models[a].requests = Len(OfModel(e.provider, models[a].model))
                          /\ models[a].requests > 0
            /\ \A i, j \in 1..Len(res) :
                 i < j => ~LessThan(res[i].totalCost, res[j].totalCost)

\* C30 (as claimed): budgetForecast reports the active budgets and only
\* them, and no reported budget whose current spend has reached its limit
\* has the status healthy.
C30_SpentBudgetNotHealthy ==
    call.fn = "budgetForecast" =>
        LET budgets == call.arg.budgets
            res == call.result
        IN  /\ \A i \in 1..Len(res) :
                 \E k \in 1..Len(budgets) :
                     budgets[k]._id = res[i].budgetId /\ budgets[k].isActive
            /\ \A k \in 1..Len(budgets) :
                 budgets[k].isActive =>
                     \E i \in 1..Len(res) : res[i].budgetId = budgets[k]._id
            /\ \A i \in 1..Len(res) :
                 ~LessThan(res[i].currentSpend, res[i].limitDollars)
                     => res[i].status # "healthy"

====
